---- MODULE Spec2Model ----
(***************************************************************************)
(* A model of adaptors/terraform_adaptor.py: the TerraformDict resource    *)
(* graph document, the TerraformAdaptor operations (translate, execute,    *)
(* undeploy, cleanup, update) and the files they keep under the volume.    *)
(***************************************************************************)
EXTENDS Integers, Sequences, FiniteSets, TLC

\* ------------------------------------------------------------------ bounds
MaxNodes == 2
MaxCount == 2
MaxLockReports == 1
MaxCalls == 5
MaxRichNodes == 2
MaxPolicies == 2

\* ------------------------------------------------------- program constants
FRESH_LOCK_TIMEOUT == 0
UPDATE_LOCK_TIMEOUT == 300
DESTROY_LOCK_TIMEOUT == 600
LOCK_SLEEP == 5
DISCOVERY_TRIES == 5
INSERT_POS == 29

SUPPORTED_CLOUDS == {"ec2", "nova", "azure", "gce"}

\* ----------------------------------------------------------------- values
\* An optional value: None, or Some(x).  A file is an optional content.
None == << >>
Some(x) == << x >>
IsSome(o) == o # << >>
Get(o) == o[1]

\* The truth value of an optional string: None and "" are false.
Truthy(o) == IsSome(o) /\ Get(o) # ""

\* f with key k bound to v (a Python dict assignment d[k] = v).
Put(f, k, v) == [x \in (DOMAIN f) \cup {k} |-> IF x = k THEN v ELSE f[x]]
EmptyMap == [x \in {} |-> 0]

\* Node names are character sequences, so that '"_" in node.name' is computed.
NameA == << "a" >>
NameB == << "b" >>
NameW == << "w", "_", "1" >>
Names == {NameA, NameB, NameW}

\* A variant that finds no underscore anywhere.
HasUnderscore_never(name) == FALSE

HasUnderscore(name) == \E i \in DOMAIN name : name[i] = "_"

\* str(i) for a natural number.
Digit == << "0", "1", "2", "3", "4", "5", "6", "7", "8", "9" >>
RECURSIVE Str(_)
Str(n) == IF n < 10 THEN Digit[n + 1] ELSE Str(n \div 10) \o Digit[(n % 10) + 1]

\* ------------------------------------------------------------ descriptors
\* A node template: cap is the node's own "scalable" capability (None or
\* Some([min, max])), ctx the "context" property (None or Some([append, cfg]),
\* cfg None or Some(user config number)), complete whether every property
\* the mapper of its cloud reads is present, opts the optional properties set
\* (of "public_ip", "public_key").  region is the region of an ec2 or gce
\* node, the project of a nova node, the resource group of an azure node.
Node(name, iface, cloud, region, img, cap, ctx, complete, opts) ==
    [name |-> name, iface |-> iface, cloud |-> cloud, region |-> region,
     img |-> img, cap |-> cap, ctx |-> ctx, complete |-> complete, opts |-> opts]

Cap(n) == Some([min |-> n, max |-> n])
Ctx(append, cfg) == Some([append |-> append, cfg |-> cfg])

NodePool ==
    {Node(NameA, TRUE, "ec2", "r1", 1, None, None, TRUE, {})}
    \cup {Node(NameA, TRUE, "ec2", "r1", 1, Cap(n), None, TRUE, {}) : n \in 2..MaxCount}
    \cup {Node(NameA, TRUE, "ec2", "r1", 1, None, Ctx(FALSE, Some(1)), TRUE, {}),
          Node(NameA, TRUE, "ec2", "r1", 1, None, Ctx(TRUE, None), TRUE, {}),
          Node(NameB, TRUE, "gce", "r1", 1, None, None, TRUE, {})}

PolicyPool == {<< >>}

\* Node templates are keyed by name in the descriptor: names are unique.
UniqueNames(ns) == \A i, j \in DOMAIN ns : ns[i].name = ns[j].name => i = j

NodeSeqs ==
    {ns \in UNION {[1..k -> NodePool] : k \in 0..MaxNodes} : UniqueNames(ns)}

Templates ==
    {[nodetemplates |-> ns, policies |-> ps] : ns \in NodeSeqs, ps \in PolicyPool}

\* ------------------------------------------------- bootstrap (cloud-init)
\* The rendered default template: worker_name and the sections of the template.
DefaultConfig(name) ==
    [worker |-> name, runcmd |-> << "setup", "join" >>]

UserConfig(c) ==
    IF c = 1 THEN [runcmd |-> << "u1" >>]
    ELSE [runcmd |-> << "u2" >>, packages |-> << "p" >>]

\* list.insert(pos, z)
ListInsert(l, pos, z) ==
    IF pos >= Len(l) THEN Append(l, z)
    ELSE SubSeq(l, 1, pos) \o << z >> \o SubSeq(l, pos + 1, Len(l))

RECURSIVE InsertAll(_, _)
InsertAll(l, zs) ==
    IF zs = << >> THEN l
    ELSE InsertAll(ListInsert(l, INSERT_POS, Head(zs)), Tail(zs))

\* A variant in which override merges like append instead of discarding the
\* default template.
GetCloudInit_keepsDefault(name, cfg, append, override) ==
    LET default == DefaultConfig(name)
    IN  IF append \/ override
        THEN LET user == UserConfig(Get(cfg))
             IN  [x \in DOMAIN default |->
                    IF x \in DOMAIN user
                    THEN InsertAll(default[x], user[x])
                    ELSE default[x]]
        ELSE default

\* _get_cloud_init(tosca_cloud_config, append, override); cfg is None or Some(c).
GetCloudInit(name, cfg, append, override) ==
    LET default == DefaultConfig(name)
    IN  IF override THEN UserConfig(Get(cfg))
        ELSE IF append
        THEN LET user == UserConfig(Get(cfg))
             IN  [x \in DOMAIN default |->
                    IF x \in DOMAIN user
                    THEN InsertAll(default[x], user[x])
                    ELSE default[x]]
        ELSE default

\* ------------------------------------------------------- TerraformDict
NewTerraformDict ==
    [provider |-> EmptyMap, variable |-> EmptyMap, output |-> EmptyMap,
     resource |-> EmptyMap, data |-> EmptyMap, tfvars |-> EmptyMap]

\* A variant in which the last write wins.
add_provider_last(d, name, properties) ==
    [d EXCEPT !.provider = Put(@, name, properties)]

add_provider(d, name, properties) ==
    IF name \in DOMAIN d.provider THEN d
    ELSE [d EXCEPT !.provider = Put(@, name, properties)]

add_variable(d, name, properties) ==
    IF name \in DOMAIN d.variable THEN d
    ELSE [d EXCEPT !.variable = Put(@, name, properties)]

add_output(d, name, value) ==
    IF name \in DOMAIN d.output THEN d
    ELSE [d EXCEPT !.output = Put(@, name, [value |-> value])]

InList(x, l) == \E i \in DOMAIN l : l[i] = x

\* A variant that appends without looking.
add_resource_append(d, name, resource) ==
    LET cur == IF name \in DOMAIN d.resource THEN d.resource[name] ELSE << >>
    IN  [d EXCEPT !.resource = Put(@, name, Append(cur, resource))]

add_resource(d, name, resource) ==
    LET cur == IF name \in DOMAIN d.resource THEN d.resource[name] ELSE << >>
    IN  [d EXCEPT !.resource =
           Put(@, name, IF InList(resource, cur) THEN cur ELSE Append(cur, resource))]

add_data(d, name, data) ==
    LET cur == IF name \in DOMAIN d.data THEN d.data[name] ELSE << >>
    IN  [d EXCEPT !.data =
           Put(@, name, IF InList(data, cur) THEN cur ELSE Append(cur, data))]

\* A variant that makes one token whatever the count.
FreshTokens_one(value) == [i \in 1..1 |-> Str(i)]

\* ["1", ..., str(value)]
FreshTokens(value) == [i \in 1..value |-> Str(i)]

add_instance_variable(d, name, value) ==
    [add_variable(d, name, EmptyMap) EXCEPT !.tfvars = Put(@, name, FreshTokens(value))]

\* A variant that keeps the new lists.
update_instance_vars_fresh(d, old_node_list) == d

update_instance_vars(d, old_node_list) ==
    [d EXCEPT !.tfvars =
        [node_name \in DOMAIN d.tfvars |->
            IF node_name \in DOMAIN old_node_list
            THEN old_node_list[node_name]
            ELSE d.tfvars[node_name]]]

\* What dump_json writes to path_to_tf: the dict itself, without tfvars.
GraphOf(d) ==
    [provider |-> d.provider, variable |-> d.variable, output |-> d.output,
     resource |-> d.resource, data |-> d.data]

\* ------------------------------------------------------------ file system
\* Paths under the volume.  tf_file carries the application id; the others do not.
P_TF == << "tf" >>
P_VARS == << "vars" >>
P_ACCOUNT == << "account" >>
P_CI(name) == << "ci", name >>

AUTH_GCE == "gce_auth"
NoFiles == [n \in Names |-> None]

VARIABLES
    \* the adaptor object
    template, dryrun, validate, created, lookups, status, tf_json, cloud_inits,
    node_name, min_instances, max_instances,
    \* the files of the volume
    tf_file, tf_file_tmp, vars_file, vars_file_tmp, account_file, ci_file, ci_tmp,
    \* control: the running operation, its position, how it ended last
    op, pc, branch, outcome, command, lock_timeout, result,
    \* history of the running (or last) operation
    events, ran, reports,
    \* the backend: how often it reports lock contention for one command
    contention,
    \* the application id of the adaptor object, and the graph files of the
    \* other application id that shares the volume
    app, other,
    \* a TerraformDict on its own and the add_* calls made on it
    document, calls

self_vars == << template, dryrun, validate, created, lookups, status, tf_json, cloud_inits,
                node_name, min_instances, max_instances >>
fs_vars == << tf_file, tf_file_tmp, vars_file, vars_file_tmp, account_file,
              ci_file, ci_tmp >>
ctl_vars == << op, pc, branch, outcome, command, lock_timeout, result >>
hist_vars == << events, ran, reports >>
aux_vars == << app, other, document, calls >>
vars == << self_vars, fs_vars, ctl_vars, hist_vars, contention, aux_vars >>

\* ------------------------------------------------------------- translate
\* _get_policies: the node's own capability, else the policies naming it.
RECURSIVE PolicyScan(_, _, _)
PolicyScan(policies, name, cur) ==
    IF policies = << >> THEN cur
    ELSE LET p == Head(policies)
         IN  PolicyScan(Tail(policies), name,
                        IF name \in p.targets THEN [min |-> p.min, max |-> p.max]
                        ELSE cur)

\* A variant in which a policy naming the node overrides its capability.
get_policies_policyFirst(tpl, node) ==
    PolicyScan(tpl.policies, node.name,
               IF IsSome(node.cap) THEN Get(node.cap) ELSE [min |-> 1, max |-> 1])

get_policies(tpl, node) ==
    IF IsSome(node.cap) THEN Get(node.cap)
    ELSE PolicyScan(tpl.policies, node.name, [min |-> 1, max |-> 1])

\* A variant that takes the default config when append comes without one.
context_section_lenient(name, ctx) ==
    IF IsSome(ctx) /\ IsSome(Get(ctx).cfg)
    THEN [err |-> "none",
          doc |-> GetCloudInit(name, Get(ctx).cfg, Get(ctx).append, ~Get(ctx).append)]
    ELSE [err |-> "none", doc |-> GetCloudInit(name, None, FALSE, FALSE)]

\* _node_data_get_context_section: the document written to the .tmp path, or
\* the AdaptorCritical of append without cloud_config.
context_section(name, ctx) ==
    IF ~IsSome(ctx)
    THEN [err |-> "none", doc |-> GetCloudInit(name, None, FALSE, FALSE)]
    ELSE LET c == Get(ctx)
         IN  IF c.append
             THEN IF ~IsSome(c.cfg)
                  THEN [err |-> "critical", doc |-> DefaultConfig(name)]
                  ELSE [err |-> "none", doc |-> GetCloudInit(name, c.cfg, TRUE, FALSE)]
             ELSE IF ~IsSome(c.cfg)
                  THEN [err |-> "none", doc |-> GetCloudInit(name, None, FALSE, FALSE)]
                  ELSE [err |-> "none", doc |-> GetCloudInit(name, c.cfg, FALSE, TRUE)]

\* The per-pass state threaded through the node loop.
PassState(cis, tmp, account, name, min, max) ==
    [tf |-> NewTerraformDict, cloud_inits |-> cis, ci_tmp |-> tmp,
     account |-> account, node_name |-> name, min |-> min, max |-> max,
     events |-> {}, err |-> "none"]

\* if aws_region and aws_region != region: the region of the aws provider,
\* when there is one and it is not the empty string, must be the node's.
add_terraform_aws(st, node) ==
    IF ~node.complete THEN [st EXCEPT !.err = "crash"]
    ELSE
    LET aws_region == IF "aws" \in DOMAIN st.tf.provider
                      THEN Some(st.tf.provider["aws"].region) ELSE None
    IN  IF Truthy(aws_region) /\ Get(aws_region) # node.region
        THEN [st EXCEPT !.err = "critical"]
        ELSE
        LET d1 == add_provider(st.tf, "aws",
                               [version |-> "~> 2.54", region |-> node.region])
            d2 == add_instance_variable(d1, node.name, st.min)
            d3 == add_resource(d2, "aws_instance",
                               [node |-> node.name, ami |-> node.img,
                                user_data |-> P_CI(node.name)])
            d4 == add_output(d3, node.name, "aws_instance")
        IN  [st EXCEPT !.tf = d4]

add_terraform_nova(st, node) ==
    LET d1 == add_instance_variable(st.tf, node.name, st.min)
    IN  IF ~node.complete THEN [st EXCEPT !.tf = d1, !.err = "crash"]
        ELSE
        LET d2 == add_provider(d1, "openstack",
                               [version |-> "~> 1.26", region |-> node.region])
            d3 == add_resource(d2, "openstack_compute_instance_v2",
                               [node |-> node.name, ami |-> node.img,
                                user_data |-> P_CI(node.name)])
        IN  [st EXCEPT !.tf = d3]

\* The azurerm provider and the count variable come before the first
\* property lookup; then four data stanzas, the public address when the node
\* asks for one, the network interface, its security association, and the
\* machine: the Linux one with a public key, the Windows one without (which
\* refers to the bootstrap document only when the node has a context).
add_terraform_azure(st, node) ==
    LET d1 == add_provider(st.tf, "azurerm", [version |-> "~> 2.2"])
        d2 == add_instance_variable(d1, node.name, st.min)
    IN  IF ~node.complete THEN [st EXCEPT !.tf = d2, !.err = "crash"]
        ELSE
        LET group == [group |-> node.region]
            d3 == add_data(d2, "azurerm_resource_group", group)
            d4 == add_data(d3, "azurerm_virtual_network", group)
            d5 == add_data(d4, "azurerm_subnet", group)
            d6 == add_data(d5, "azurerm_network_security_group", group)
            d7 == IF "public_ip" \in node.opts
                  THEN add_resource(d6, "azurerm_public_ip", [node |-> node.name])
                  ELSE d6
            d8 == add_resource(d7, "azurerm_network_interface",
                               [node |-> node.name,
                                public_ip |-> "public_ip" \in node.opts])
            d9 == add_resource(d8,
                               "azurerm_network_interface_security_group_association",
                               [node |-> node.name])
            d10 == add_resource(d9,
                                IF "public_key" \in node.opts
                                THEN "azurerm_linux_virtual_machine"
                                ELSE "azurerm_windows_virtual_machine",
                                [node |-> node.name, ami |-> node.img,
                                 custom_data |->
                                    IF "public_key" \in node.opts \/ IsSome(node.ctx)
                                    THEN Some(P_CI(node.name)) ELSE None])
            d11 == add_output(d10, node.name, "azurerm_network_interface")
        IN  [st EXCEPT !.tf = d11]

add_terraform_gce(st, node) ==
    LET d1 == add_instance_variable(st.tf, node.name, st.min)
        \* shutil.copyfile(self.auth_gce, self.account_file)
        st1 == [st EXCEPT !.tf = d1, !.account = Some(AUTH_GCE),
                          !.events = @ \cup {<< "write", P_ACCOUNT >>}]
    IN  IF ~node.complete THEN [st1 EXCEPT !.err = "crash"]
        ELSE
        LET d2 == add_provider(d1, "google",
                               [version |-> "~> 3.14", region |-> node.region])
            d3 == add_resource(d2, "google_compute_instance",
                               [node |-> node.name, ami |-> node.img,
                                user_data |-> P_CI(node.name)])
        IN  [st1 EXCEPT !.tf = d3]

\* One iteration of the loop of translate over template.nodetemplates.
translate_node(tpl, st, node) ==
    IF HasUnderscore(node.name) THEN [st EXCEPT !.err = "critical"]
    ELSE
    LET st1 == [st EXCEPT !.node_name = node.name]
    IN  IF ~node.iface THEN st1
        ELSE
        LET pol == get_policies(tpl, node)
            st2 == [st1 EXCEPT !.min = pol.min, !.max = pol.max]
            sec == context_section(node.name, node.ctx)
        IN  IF sec.err # "none" THEN [st2 EXCEPT !.err = sec.err]
            ELSE
            LET st3 == [st2 EXCEPT !.ci_tmp[node.name] = Some(sec.doc),
                                   !.cloud_inits = @ \cup {node.name}]
            IN  CASE node.cloud = "ec2" -> add_terraform_aws(st3, node)
                  [] node.cloud = "nova" -> add_terraform_nova(st3, node)
                  [] node.cloud = "azure" -> add_terraform_azure(st3, node)
                  [] node.cloud = "gce" -> add_terraform_gce(st3, node)
                  [] OTHER -> st3

RECURSIVE translate_nodes(_, _, _)
translate_nodes(tpl, st, nodes) ==
    IF nodes = << >> \/ st.err # "none" THEN st
    ELSE translate_nodes(tpl, translate_node(tpl, st, Head(nodes)), Tail(nodes))

\* The node loop of one pass of this adaptor, from the current files; min and
\* max are the instance counts the object holds when the pass starts.
NodePass(min, max) ==
    translate_nodes(template,
                    PassState(cloud_inits, ci_tmp, account_file, node_name, min, max),
                    template.nodetemplates)

\* ------------------------------------------------------------ construction
\* The (dryrun, validate) pairs adaptors are constructed with.
Flags == {<< FALSE, FALSE >>, << TRUE, FALSE >>, << FALSE, TRUE >>}

\* The tries on which the container lookup can first succeed: the first, or none.
FoundAt(dry, val) == IF dry \/ val THEN {1} ELSE {1, DISCOVERY_TRIES + 1}

NoResult == [exit |-> 0, lock |-> FALSE, marker |-> FALSE]

\* _init_docker: the container is looked up at most DISCOVERY_TRIES times;
\* found_at is the try on which the lookup first succeeds (beyond: never).
init_docker(found_at) == found_at <= DISCOVERY_TRIES

\* The loop of _init_docker from its i-th failure on: how many times the
\* container is looked up before the loop ends.
RECURSIVE init_docker_lookups(_, _)
init_docker_lookups(i, found_at) ==
    IF i < DISCOVERY_TRIES
    THEN IF i + 1 = found_at THEN 1 ELSE 1 + init_docker_lookups(i + 1, found_at)
    ELSE 0

\* The two application ids that share the volume.
APP_1 == "app1"
APP_2 == "app2"
NoGraphFiles == [tf_file |-> None, tf_file_tmp |-> None]

\* A variant that looks the container up in a dry run too.
NewAdaptor_discovers(tpl, dry, val, found_at) ==
    /\ template' = tpl
    /\ dryrun' = dry
    /\ validate' = val
    /\ created' = init_docker(found_at)
    /\ lookups' = init_docker_lookups(0, found_at)
    /\ status' = "init"
    /\ tf_json' = NewTerraformDict
    /\ cloud_inits' = {}
    /\ node_name' = << >>
    /\ min_instances' = 1
    /\ max_instances' = 1
    /\ op' = "none"
    /\ branch' = "none"
    /\ outcome' = "none"
    /\ command' = "none"
    /\ lock_timeout' = 0
    /\ result' = NoResult
    /\ events' = {}
    /\ ran' = {}
    /\ reports' = 0

NewAdaptor(tpl, dry, val, found_at) ==
    /\ template' = tpl
    /\ dryrun' = dry
    /\ validate' = val
    /\ created' = IF dry THEN FALSE ELSE init_docker(found_at)
    /\ lookups' = IF dry THEN 0 ELSE init_docker_lookups(0, found_at)
    /\ status' = "init"
    /\ tf_json' = NewTerraformDict
    /\ cloud_inits' = {}
    /\ node_name' = << >>
    /\ min_instances' = 1
    /\ max_instances' = 1
    /\ op' = "none"
    /\ branch' = "none"
    /\ outcome' = "none"
    /\ command' = "none"
    /\ lock_timeout' = 0
    /\ result' = NoResult
    /\ events' = {}
    /\ ran' = {}
    /\ reports' = 0

Init ==
    /\ template \in Templates
    /\ \E fl \in Flags : dryrun = fl[1] /\ validate = fl[2]
    /\ \E f \in FoundAt(dryrun, validate) :
          /\ created = (~dryrun /\ init_docker(f))
          /\ lookups = IF dryrun THEN 0 ELSE init_docker_lookups(0, f)
    /\ status = "init"
    /\ tf_json = NewTerraformDict
    /\ cloud_inits = {}
    /\ node_name = << >>
    /\ min_instances = 1
    /\ max_instances = 1
    /\ tf_file = None
    /\ tf_file_tmp = None
    /\ vars_file = None
    /\ vars_file_tmp = None
    /\ account_file = None
    /\ ci_file = NoFiles
    /\ ci_tmp = NoFiles
    /\ op = "none"
    /\ pc = "idle"
    /\ branch = "none"
    /\ outcome = "none"
    /\ command = "none"
    /\ lock_timeout = 0
    /\ result = NoResult
    /\ events = {}
    /\ ran = {}
    /\ reports = 0
    /\ contention = MaxLockReports
    /\ app = APP_1
    /\ other = NoGraphFiles
    /\ document = NewTerraformDict
    /\ calls = {}

\* The adaptor object is dropped once its operation is over; the files stay.
NoTemplate == [nodetemplates |-> << >>, policies |-> << >>]

Release ==
    /\ pc = "idle"
    /\ NewAdaptor(NoTemplate, TRUE, FALSE, 1)
    /\ pc' = "released"
    /\ UNCHANGED << fs_vars, contention, aux_vars >>

\* A new adaptor object for the same application id, over the same volume.
Construct ==
    /\ pc = "released"
    /\ \E tpl \in Templates, fl \in Flags :
         \E found_at \in FoundAt(fl[1], fl[2]) :
            NewAdaptor(tpl, fl[1], fl[2], found_at)
    /\ pc' = "idle"
    /\ UNCHANGED << fs_vars, contention, aux_vars >>

\* ------------------------------------------------------------- file steps
\* os.rename(tmp, committed) over a map of bootstrap documents, for the names
\* in cs (each with its .tmp present); the _copy variant leaves the .tmp behind.
rename_cloudinits_copy(committed, tmp, cs) ==
    [committed |-> [n \in Names |-> IF n \in cs THEN tmp[n] ELSE committed[n]],
     tmp |-> tmp]

rename_cloudinits(committed, tmp, cs) ==
    [committed |-> [n \in Names |-> IF n \in cs THEN tmp[n] ELSE committed[n]],
     tmp |-> [n \in Names |-> IF n \in cs THEN None ELSE tmp[n]]]

RenameEvents(cs) == {<< "rename", P_CI(n) >> : n \in cs}

\* A variant that leaves the staged bootstrap documents where they are.
remove_tmp_cloudinits_none(tmp, cs) == tmp

\* _remove_tmp_files: the staged graph, the staged variables and the .tmp of
\* every path in cloud_inits.
remove_tmp_cloudinits(tmp, cs) == [n \in Names |-> IF n \in cs THEN None ELSE tmp[n]]

\* _remove_cloud_inits: every file of the volume whose name holds
\* "cloud-init.yaml", the .tmp ones included.
remove_cloud_inits(files) == [n \in Names |-> None]

CleanupEvents ==
    {<< "remove", P_CI(n) >> : n \in {m \in Names : IsSome(ci_file[m])}}
    \cup (IF IsSome(tf_file) THEN {<< "remove", P_TF >>} ELSE {})
    \cup (IF IsSome(vars_file) THEN {<< "remove", P_VARS >>} ELSE {})
    \cup (IF IsSome(account_file) THEN {<< "remove", P_ACCOUNT >>} ELSE {})

_config_file_exists == IsSome(tf_file)

\* utils.load_json(path): the content of the file; open() raises on a missing one.
load_json_outcomes(file) ==
    IF IsSome(file) THEN {[err |-> "none", data |-> Get(file)]}
    ELSE {[err |-> "crash", data |-> EmptyMap]}

\* filecmp.cmp over two existing files, negated: the contents differ.
_differentiate(path, tmp_path) == Get(path) # Get(tmp_path)

\* -------------------------------------------------------------- operations
\* The start of a public operation: the history of the previous one is dropped.
Begin(name) ==
    /\ pc = "idle"
    /\ op' = name

\* The operation is over: it returned ("ok") or raised (how it failed).
Finish(how) ==
    /\ pc' = "done"
    /\ outcome' = how

\* Control is back with the caller; what the finished operation did is history.
Return ==
    /\ pc = "done"
    /\ pc' = "idle"
    /\ op' = "none"
    /\ branch' = "none"
    /\ outcome' = "none"
    /\ result' = NoResult
    /\ events' = {}
    /\ ran' = {}
    /\ UNCHANGED << self_vars, fs_vars, command, lock_timeout, reports, contention, aux_vars >>

\* command, lock_timeout and the answer of exec_run are locals of the executor.
DropLocals ==
    /\ command' = "none"
    /\ lock_timeout' = 0
    /\ reports' = 0

\* The fields the node loop leaves in the adaptor object.
KeepPass(st) ==
    /\ tf_json' = st.tf
    /\ cloud_inits' = st.cloud_inits
    /\ node_name' = st.node_name
    /\ min_instances' = st.min
    /\ max_instances' = st.max

\* The .tmp names a pass cannot rename: os.rename raises on the first of them.
MissingTmp(tmp, cs) == {n \in cs : ~IsSome(tmp[n])}

\* translate(update=False): build, or validate when self.validate is set.
Translate ==
    /\ Begin("translate")
    /\ LET st == NodePass(min_instances, max_instances)
       IN  /\ KeepPass(st)
           /\ account_file' = st.account
           /\ UNCHANGED << template, dryrun, validate, created, lookups >>
           /\ UNCHANGED << tf_file_tmp, vars_file_tmp >>
           /\ UNCHANGED << command, lock_timeout, reports, contention, aux_vars >>
           /\ branch' = "none"
           /\ result' = NoResult
           /\ ran' = {}
           /\ IF st.err # "none"
              THEN /\ status' = "translating..."
                   /\ ci_tmp' = st.ci_tmp
                   /\ events' = st.events
                   /\ Finish(st.err)
                   /\ UNCHANGED << tf_file, vars_file, ci_file >>
              ELSE IF st.tf.provider = EmptyMap
              THEN /\ status' = "Skipped"
                   /\ ci_tmp' = st.ci_tmp
                   /\ events' = st.events
                   /\ Finish("ok")
                   /\ UNCHANGED << tf_file, vars_file, ci_file >>
              ELSE IF validate
              THEN /\ status' = "Translated"
                   /\ ci_tmp' = st.ci_tmp
                   /\ events' = st.events
                   /\ Finish("ok")
                   /\ UNCHANGED << tf_file, vars_file, ci_file >>
              ELSE \* dump_json(tf_file, vars_file), then _rename_tmp_cloudinits
                   /\ tf_file' = Some(GraphOf(st.tf))
                   /\ vars_file' = Some(st.tf.tfvars)
                   /\ LET missing == MissingTmp(st.ci_tmp, st.cloud_inits)
                      IN  \E cs \in SUBSET (st.cloud_inits \ missing) :
                            /\ missing = {} => cs = st.cloud_inits
                            /\ LET r == rename_cloudinits(ci_file, st.ci_tmp, cs)
                               IN  /\ ci_file' = r.committed
                                   /\ ci_tmp' = r.tmp
                            /\ events' = st.events \cup RenameEvents(cs)
                                   \cup {<< "write", P_TF >>, << "write", P_VARS >>}
                            /\ IF missing = {}
                               THEN /\ status' = "Translated"
                                    /\ Finish("ok")
                               ELSE /\ status' = "translating..."
                                    /\ Finish("crash")

\* The files cleanup() removes once the plan file is known to exist.
cleanup_files ==
    /\ ci_file' = remove_cloud_inits(ci_file)
    /\ ci_tmp' = remove_cloud_inits(ci_tmp)
    /\ tf_file' = None
    /\ vars_file' = None
    /\ account_file' = None

Cleanup ==
    /\ Begin("cleanup")
    /\ UNCHANGED << template, dryrun, validate, created, lookups, tf_json, cloud_inits,
                    node_name, min_instances, max_instances >>
    /\ UNCHANGED << tf_file_tmp, vars_file_tmp >>
    /\ UNCHANGED << command, lock_timeout, reports, contention, aux_vars >>
    /\ branch' = "none"
    /\ result' = NoResult
    /\ ran' = {}
    /\ Finish("ok")
    /\ IF ~_config_file_exists
       THEN /\ status' = "Skipped"
            /\ events' = {}
            /\ UNCHANGED << tf_file, vars_file, account_file, ci_file, ci_tmp >>
       ELSE /\ cleanup_files
            /\ events' = CleanupEvents
            /\ UNCHANGED status

\* ---------------------------------------------------------- the executor
\* What exec_run can answer: an exit code, and whether the output holds the
\* lock signature ("Error locking state") and the command's success marker.
Results ==
    {r \in [exit : {0, 1}, lock : BOOLEAN, marker : BOOLEAN] :
        r.marker => r.exit = 0}

\* A variant that runs the command whether or not a container was found.
StartExec_unattached(cmd, budget) ==
    /\ pc' = "exec"
    /\ command' = cmd
    /\ lock_timeout' = budget
    /\ reports' = 0
    /\ UNCHANGED outcome

\* Entering _terraform_exec(command, lock_timeout): without a container the
\* call raises before anything is run.
StartExec(cmd, budget) ==
    IF ~created
    THEN /\ Finish("critical")
         /\ UNCHANGED << command, lock_timeout, reports >>
    ELSE /\ pc' = "exec"
         /\ command' = cmd
         /\ lock_timeout' = budget
         /\ reports' = 0
         /\ UNCHANGED outcome

\* A variant of _skip_check that takes no notice of dryrun.
_skip_check_nodry == IF ~_config_file_exists THEN "Skipped" ELSE ""

\* _skip_check: "Skipped", "DRY-RUN Deployment", or "" (go on).
_skip_check ==
    IF ~_config_file_exists THEN "Skipped"
    ELSE IF dryrun THEN "DRY-RUN Deployment"
    ELSE ""

\* execute(update): init then apply when fresh, apply alone on update.
ExecuteStart ==
    /\ Begin("execute")
    /\ \E update \in BOOLEAN :
         /\ branch' = IF update THEN "incremental" ELSE "fresh"
         /\ IF _skip_check # ""
            THEN /\ status' = _skip_check
                 /\ Finish("ok")
                 /\ UNCHANGED << command, lock_timeout, reports >>
            ELSE /\ status' = "executing"
                 /\ IF update
                    THEN StartExec("apply", UPDATE_LOCK_TIMEOUT)
                    ELSE StartExec("init", FRESH_LOCK_TIMEOUT)
    /\ result' = NoResult
    /\ events' = {}
    /\ ran' = {}
    /\ UNCHANGED << template, dryrun, validate, created, lookups, tf_json, cloud_inits,
                    node_name, min_instances, max_instances >>
    /\ UNCHANGED << fs_vars, contention, aux_vars >>

UndeployStart ==
    /\ Begin("undeploy")
    /\ branch' = "none"
    /\ IF _skip_check # ""
       THEN /\ status' = _skip_check
            /\ Finish("ok")
            /\ UNCHANGED << command, lock_timeout, reports >>
       ELSE /\ status' = "undeploying"
            /\ StartExec("destroy", DESTROY_LOCK_TIMEOUT)
    /\ result' = NoResult
    /\ events' = {}
    /\ ran' = {}
    /\ UNCHANGED << template, dryrun, validate, created, lookups, tf_json, cloud_inits,
                    node_name, min_instances, max_instances >>
    /\ UNCHANGED << fs_vars, contention, aux_vars >>

\* One turn of the loop of _terraform_exec: exec_run answers r, an answer the
\* backend can give now (it reports lock contention at most contention times
\* for one command).
Answer(r) ==
    /\ pc = "exec"
    /\ r \in Results
    /\ r.lock => reports < contention
    /\ result' = r
    /\ ran' = ran \cup {command}

\* A variant that looks for the lock signature before the exit code.
Raises_unlessLock(r) == r.exit > 0 /\ ~r.lock

\* exit_code > 0: AdaptorCritical("Terraform exec failed ...")
Raises(r) == r.exit > 0

\* A variant that waits for the lock whatever budget is left.
Retries_always(r) == ~Raises(r) /\ r.lock

\* lock_timeout > 0 and the lock signature: sleep, count down, run again.
Retries(r) == ~Raises(r) /\ lock_timeout > 0 /\ r.lock

\* Otherwise the loop is left and str(out) returned to the caller.
Returns(r) == ~Raises(r) /\ ~Retries(r)

ExecRaise ==
    /\ \E r \in Results : Answer(r) /\ Raises(r)
    /\ Finish("critical")
    /\ DropLocals
    /\ UNCHANGED << self_vars, fs_vars, op, branch, events, contention, aux_vars >>

\* A variant of the loop that sleeps without counting the budget down.
ExecRetry_noCountdown ==
    /\ \E r \in Results : Answer(r) /\ Retries(r)
    /\ lock_timeout' = lock_timeout
    /\ reports' = reports + 1
    /\ UNCHANGED << self_vars, fs_vars, op, pc, branch, outcome, command,
                    events, contention, aux_vars >>

ExecRetry ==
    /\ \E r \in Results : Answer(r) /\ Retries(r)
    /\ lock_timeout' = lock_timeout - LOCK_SLEEP
    /\ reports' = reports + 1
    /\ UNCHANGED << self_vars, fs_vars, op, pc, branch, outcome, command,
                    events, contention, aux_vars >>

\* The success marker is missing: AdaptorCritical("... failed: ...")
ExecNoMarker ==
    /\ \E r \in Results : Answer(r) /\ Returns(r) /\ ~r.marker
    /\ Finish("critical")
    /\ DropLocals
    /\ UNCHANGED << self_vars, fs_vars, op, branch, events, contention, aux_vars >>

\* A variant of _terraform_init that does not look for "successfully initialized".
InitDone_anyOutput ==
    /\ command = "init"
    /\ \E r \in Results : Answer(r) /\ Returns(r)
    /\ StartExec("apply", FRESH_LOCK_TIMEOUT)
    /\ UNCHANGED << self_vars, fs_vars, op, branch, events, contention, aux_vars >>

\* _terraform_init returned: execute goes on to _terraform_apply(0).
InitDone ==
    /\ command = "init"
    /\ \E r \in Results : Answer(r) /\ Returns(r) /\ r.marker
    /\ StartExec("apply", FRESH_LOCK_TIMEOUT)
    /\ UNCHANGED << self_vars, fs_vars, op, branch, events, contention, aux_vars >>

\* The status update() leaves after execute(True).
UpdatedStatus(b) ==
    IF b = "tf" THEN "Updated Terraform file" ELSE "Updated cloud_init files"

\* A variant of _terraform_apply that does not look for "Apply complete".
ApplyDone_anyOutput ==
    /\ command = "apply"
    /\ \E r \in Results : Answer(r) /\ Returns(r)
    /\ status' = IF op = "update" THEN UpdatedStatus(branch) ELSE "executed"
    /\ Finish("ok")
    /\ DropLocals
    /\ UNCHANGED << template, dryrun, validate, created, lookups, tf_json, cloud_inits,
                    node_name, min_instances, max_instances >>
    /\ UNCHANGED << fs_vars, op, branch, events, contention, aux_vars >>

\* _terraform_apply returned: "executed", and update() then names its branch.
ApplyDone ==
    /\ command = "apply"
    /\ \E r \in Results : Answer(r) /\ Returns(r) /\ r.marker
    /\ status' = IF op = "update" THEN UpdatedStatus(branch) ELSE "executed"
    /\ Finish("ok")
    /\ DropLocals
    /\ UNCHANGED << template, dryrun, validate, created, lookups, tf_json, cloud_inits,
                    node_name, min_instances, max_instances >>
    /\ UNCHANGED << fs_vars, op, branch, events, contention, aux_vars >>

\* _terraform_destroy returned: "undeployed"; update() then runs cleanup().
DestroyDone ==
    /\ command = "destroy"
    /\ \E r \in Results : Answer(r) /\ Returns(r) /\ r.marker
    /\ Finish("ok")
    /\ IF op = "update"
       THEN /\ status' = "Updated (undeployed)"
            /\ cleanup_files
            /\ events' = events \cup CleanupEvents
            /\ UNCHANGED << tf_file_tmp, vars_file_tmp >>
       ELSE /\ status' = "undeployed"
            /\ UNCHANGED << fs_vars, events >>
    /\ DropLocals
    /\ UNCHANGED << template, dryrun, validate, created, lookups, tf_json, cloud_inits,
                    node_name, min_instances, max_instances >>
    /\ UNCHANGED << op, branch, contention, aux_vars >>

\* ------------------------------------------------------------------ update
\* update(): status "updating", then translate(update=True).
UpdateStart ==
    /\ Begin("update")
    /\ LET st == NodePass(1, 1)
       IN  /\ cloud_inits' = st.cloud_inits
           /\ node_name' = st.node_name
           /\ min_instances' = st.min
           /\ max_instances' = st.max
           /\ account_file' = st.account
           /\ ci_tmp' = st.ci_tmp
           /\ events' = st.events
           /\ IF st.err # "none"
              THEN /\ tf_json' = st.tf
                   /\ status' = "translating..."
                   /\ branch' = "failed"
                   /\ Finish(st.err)
                   /\ UNCHANGED << tf_file_tmp, vars_file_tmp >>
              ELSE IF st.tf.provider = EmptyMap
              THEN /\ tf_json' = st.tf
                   /\ status' = "Skipped"
                   /\ branch' = "decide"
                   /\ pc' = "upd_decide"
                   /\ UNCHANGED << outcome, tf_file_tmp, vars_file_tmp >>
              ELSE \E old \in load_json_outcomes(vars_file) :
                     IF old.err # "none"
                     THEN /\ tf_json' = st.tf
                          /\ status' = "translating..."
                          /\ branch' = "staging"
                          /\ Finish(old.err)
                          /\ UNCHANGED << tf_file_tmp, vars_file_tmp >>
                     ELSE LET d == update_instance_vars(st.tf, old.data)
                          IN  /\ tf_json' = d
                              /\ tf_file_tmp' = Some(GraphOf(d))
                              /\ vars_file_tmp' = Some(d.tfvars)
                              /\ status' = "Translated"
                              /\ branch' = "decide"
                              /\ pc' = "upd_decide"
                              /\ UNCHANGED outcome
    /\ result' = NoResult
    /\ ran' = {}
    /\ UNCHANGED << template, dryrun, validate, created, lookups >>
    /\ UNCHANGED << command, lock_timeout, reports, contention, aux_vars >>
    /\ UNCHANGED << tf_file, vars_file, ci_file >>

\* _differentiate_cloud_inits: a committed bootstrap document that differs
\* from its .tmp ("true"); comparing with a missing .tmp raises ("crash").
differentiate_cloud_inits ==
    LET there == {c \in cloud_inits : IsSome(ci_file[c])}
        changed == {c \in there : IsSome(ci_tmp[c]) /\ ci_file[c] # ci_tmp[c]}
        broken == {c \in there : ~IsSome(ci_tmp[c])}
    IN  (IF changed # {} THEN {"true"} ELSE {})
        \cup (IF broken # {} THEN {"crash"} ELSE {})
        \cup (IF changed = {} /\ broken = {} THEN {"false"} ELSE {})

\* A variant without the arm for an empty pass over no committed graph.
update_branch_noSkip ==
    IF tf_json.provider = EmptyMap THEN {"undeploy"}
    ELSE IF ~IsSome(tf_file) \/ ~IsSome(tf_file_tmp) THEN {"nofile"}
    ELSE IF _differentiate(tf_file, tf_file_tmp) THEN {"tf"}
    ELSE {"same"}

\* The branch update() takes once translate(update=True) has returned.
update_branch ==
    IF tf_json.provider = EmptyMap /\ _config_file_exists THEN {"undeploy"}
    ELSE IF tf_json.provider = EmptyMap THEN {"skip"}
    ELSE IF ~IsSome(tf_file) \/ ~IsSome(tf_file_tmp) THEN {"nofile"}
    ELSE IF _differentiate(tf_file, tf_file_tmp) THEN {"tf"}
    ELSE {IF r = "true" THEN "ci" ELSE IF r = "crash" THEN "nofile" ELSE "same" :
            r \in differentiate_cloud_inits}

remove_tmp_files ==
    /\ tf_file_tmp' = None
    /\ vars_file_tmp' = None

UpdateDecide ==
    /\ pc = "upd_decide"
    /\ \E b \in update_branch :
         /\ branch' = b
         /\ CASE b = "undeploy" ->
                   \* _remove_tmp_files(); undeploy(); cleanup()
                   /\ remove_tmp_files
                   /\ IF _skip_check # ""
                      THEN /\ cleanup_files
                           /\ events' = events \cup CleanupEvents
                           /\ status' = "Updated (undeployed)"
                           /\ Finish("ok")
                           /\ UNCHANGED << command, lock_timeout, reports >>
                      ELSE /\ ci_tmp' = remove_tmp_cloudinits(ci_tmp, cloud_inits)
                           /\ status' = "undeploying"
                           /\ StartExec("destroy", DESTROY_LOCK_TIMEOUT)
                           /\ UNCHANGED << tf_file, vars_file, account_file,
                                           ci_file, events >>
              [] b \in {"skip", "same"} ->
                   /\ remove_tmp_files
                   /\ ci_tmp' = remove_tmp_cloudinits(ci_tmp, cloud_inits)
                   /\ status' = IF b = "skip" THEN "Skipped"
                                ELSE "Updated (nothing to update)"
                   /\ Finish("ok")
                   /\ UNCHANGED << tf_file, vars_file, account_file, ci_file,
                                   events, command, lock_timeout, reports >>
              [] b = "nofile" ->
                   \* filecmp.cmp raises on the missing file
                   /\ Finish("crash")
                   /\ UNCHANGED << fs_vars, status, events, command,
                                   lock_timeout, reports >>
              [] b \in {"tf", "ci"} ->
                   /\ pc' = "rename_tf"
                   /\ UNCHANGED << fs_vars, status, outcome, events, command,
                                   lock_timeout, reports >>
    /\ UNCHANGED << template, dryrun, validate, created, lookups, tf_json, cloud_inits,
                    node_name, min_instances, max_instances >>
    /\ UNCHANGED << op, result, ran, contention, aux_vars >>

\* A variant of the first rename that copies: the staged graph stays behind.
RenameTf_copy ==
    /\ pc = "rename_tf"
    /\ tf_file' = tf_file_tmp
    /\ events' = events \cup {<< "rename", P_TF >>}
    /\ pc' = "rename_vars"
    /\ UNCHANGED << self_vars, tf_file_tmp, vars_file, vars_file_tmp, account_file,
                    ci_file, ci_tmp, op, branch, outcome, command, lock_timeout,
                    result, ran, reports, contention, aux_vars >>

\* _rename_all_tmp_files, one os.rename at a time.
RenameTf ==
    /\ pc = "rename_tf"
    /\ tf_file' = tf_file_tmp
    /\ tf_file_tmp' = None
    /\ events' = events \cup {<< "rename", P_TF >>}
    /\ pc' = "rename_vars"
    /\ UNCHANGED << self_vars, vars_file, vars_file_tmp, account_file, ci_file,
                    ci_tmp, op, branch, outcome, command, lock_timeout, result,
                    ran, reports, contention, aux_vars >>

RenameVars ==
    /\ pc = "rename_vars"
    /\ vars_file' = vars_file_tmp
    /\ vars_file_tmp' = None
    /\ events' = events \cup {<< "rename", P_VARS >>}
    /\ pc' = "rename_ci"
    /\ UNCHANGED << self_vars, tf_file, tf_file_tmp, account_file, ci_file,
                    ci_tmp, op, branch, outcome, command, lock_timeout, result,
                    ran, reports, contention, aux_vars >>

\* A variant that renames the changed bootstrap documents only.
ToRename_changed ==
    {c \in cloud_inits : << "rename", P_CI(c) >> \notin events
                          /\ ci_file[c] # ci_tmp[c]}

\* The paths of cloud_inits the loop of _rename_tmp_cloudinits has yet to do.
ToRename == {c \in cloud_inits : << "rename", P_CI(c) >> \notin events}

RenameCi ==
    /\ pc = "rename_ci"
    /\ \E c \in ToRename :
         IF ~IsSome(ci_tmp[c])
         THEN /\ Finish("crash")
              /\ UNCHANGED << ci_file, ci_tmp, events >>
         ELSE /\ LET r == rename_cloudinits(ci_file, ci_tmp, {c})
                 IN  /\ ci_file' = r.committed
                     /\ ci_tmp' = r.tmp
              /\ events' = events \cup RenameEvents({c})
              /\ UNCHANGED << pc, outcome >>
    /\ UNCHANGED << self_vars, tf_file, tf_file_tmp, vars_file, vars_file_tmp,
                    account_file, op, branch, command, lock_timeout, result,
                    ran, reports, contention, aux_vars >>

\* execute(True) at the end of the promotion.
UpdateExecute ==
    /\ pc = "rename_ci"
    /\ ToRename = {}
    /\ IF _skip_check # ""
       THEN /\ status' = UpdatedStatus(branch)
            /\ Finish("ok")
            /\ UNCHANGED << command, lock_timeout, reports >>
       ELSE /\ status' = "executing"
            /\ StartExec("apply", UPDATE_LOCK_TIMEOUT)
    /\ UNCHANGED << template, dryrun, validate, created, lookups, tf_json, cloud_inits,
                    node_name, min_instances, max_instances >>
    /\ UNCHANGED << fs_vars, op, branch, result, events, ran, contention, aux_vars >>

\* ----------------------------------------------------------- specifications
Next ==
    \/ Release
    \/ Construct
    \/ Return
    \/ Translate
    \/ Cleanup
    \/ ExecuteStart
    \/ UndeployStart
    \/ ExecRaise
    \/ ExecRetry
    \/ ExecNoMarker
    \/ InitDone
    \/ ApplyDone
    \/ DestroyDone
    \/ UpdateStart
    \/ UpdateDecide
    \/ RenameTf
    \/ RenameVars
    \/ RenameCi
    \/ UpdateExecute

Spec == Init /\ [][Next]_vars

\* The executor alone, on a deployment that a build has committed: the backend
\* may report lock contention for as long as the largest budget lasts, and
\* once more.
BuildPass(tpl) ==
    translate_nodes(tpl, PassState({}, NoFiles, None, << >>, 1, 1), tpl.nodetemplates)

Built == {tpl \in Templates : BuildPass(tpl).err = "none"
                               /\ BuildPass(tpl).tf.provider # EmptyMap}

\* A committed build under a fresh adaptor object whose container lookup
\* first succeeds on one of the tries found_ats.
InitBuilt(found_ats) ==
    /\ template \in Built
    /\ dryrun = FALSE
    /\ validate = FALSE
    /\ \E f \in found_ats : /\ created = init_docker(f)
                            /\ lookups = init_docker_lookups(0, f)
    /\ status = "Translated"
    /\ LET st == BuildPass(template)
           r == rename_cloudinits(NoFiles, st.ci_tmp, st.cloud_inits)
       IN  /\ tf_json = st.tf
           /\ cloud_inits = st.cloud_inits
           /\ node_name = st.node_name
           /\ min_instances = st.min
           /\ max_instances = st.max
           /\ tf_file = Some(GraphOf(st.tf))
           /\ vars_file = Some(st.tf.tfvars)
           /\ account_file = st.account
           /\ ci_file = r.committed
           /\ ci_tmp = r.tmp
    /\ tf_file_tmp = None
    /\ vars_file_tmp = None
    /\ op = "none"
    /\ pc = "idle"
    /\ branch = "none"
    /\ outcome = "none"
    /\ command = "none"
    /\ lock_timeout = 0
    /\ result = NoResult
    /\ events = {}
    /\ ran = {}
    /\ reports = 0
    /\ contention \in {0, MaxLockReports, (DESTROY_LOCK_TIMEOUT \div LOCK_SLEEP) + 1}
    /\ app = APP_1
    /\ other = NoGraphFiles
    /\ document = NewTerraformDict
    /\ calls = {}

InitExec == InitBuilt({1})

NextExec ==
    \/ Return
    \/ ExecuteStart
    \/ UndeployStart
    \/ ExecRaise
    \/ ExecRetry
    \/ ExecNoMarker
    \/ InitDone
    \/ ApplyDone
    \/ DestroyDone

SpecExec == InitExec /\ [][NextExec]_vars

\* One turn of the loop of _terraform_exec, whatever exec_run answers.
ExecTurn ==
    \/ ExecRaise
    \/ ExecRetry
    \/ ExecNoMarker
    \/ InitDone
    \/ ApplyDone
    \/ DestroyDone

\* The executor under the assumption that exec_run always answers and the
\* thread in _terraform_exec goes on running: a started loop takes its turns.
SpecExecFair == SpecExec /\ WF_vars(ExecTurn)

\* translate alone, over descriptors of every supported cloud: EC2 nodes of
\* two regions and of the empty region, Nova nodes of two projects, Azure
\* nodes with and without public address and public key, GCE nodes of two
\* regions, a node with an underscore in its name (with and without a
\* Terraform interface), a node that appends without a config, and a node
\* without a Terraform interface.
RichPool ==
    {Node(n, TRUE, "ec2", r, 1, None, None, TRUE, {}) :
        n \in {NameA, NameB}, r \in {"", "r1", "r2"}}
    \cup {Node(n, TRUE, c, r, 1, None, None, TRUE, {}) :
        n \in {NameA, NameB}, c \in {"nova", "gce"}, r \in {"r1", "r2"}}
    \cup {Node(n, TRUE, "azure", "r1", 1, None, None, TRUE, o) :
        n \in {NameA, NameB}, o \in SUBSET {"public_ip", "public_key"}}
    \cup {Node(NameW, i, "ec2", "r1", 1, None, None, TRUE, {}) : i \in BOOLEAN}
    \cup {Node(NameB, TRUE, "ec2", "r1", 1, None, Ctx(TRUE, None), TRUE, {}),
          Node(NameA, FALSE, "ec2", "r1", 1, None, None, TRUE, {})}

RichTemplates ==
    {[nodetemplates |-> ns, policies |-> << >>] :
        ns \in {n \in UNION {[1..k -> RichPool] : k \in 0..MaxRichNodes} :
                   UniqueNames(n)}}

\* A fresh adaptor object for one of the descriptors tpls, over an empty volume.
InitPass(tpls) ==
    /\ template \in tpls
    /\ \E fl \in Flags : dryrun = fl[1] /\ validate = fl[2]
    /\ created = ~dryrun
    /\ lookups = IF dryrun THEN 0 ELSE 1
    /\ status = "init"
    /\ tf_json = NewTerraformDict
    /\ cloud_inits = {}
    /\ node_name = << >>
    /\ min_instances = 1
    /\ max_instances = 1
    /\ tf_file = None
    /\ tf_file_tmp = None
    /\ vars_file = None
    /\ vars_file_tmp = None
    /\ account_file = None
    /\ ci_file = NoFiles
    /\ ci_tmp = NoFiles
    /\ op = "none"
    /\ pc = "idle"
    /\ branch = "none"
    /\ outcome = "none"
    /\ command = "none"
    /\ lock_timeout = 0
    /\ result = NoResult
    /\ events = {}
    /\ ran = {}
    /\ reports = 0
    /\ contention = 0
    /\ app = APP_1
    /\ other = NoGraphFiles
    /\ document = NewTerraformDict
    /\ calls = {}

InitTranslate == InitPass(RichTemplates)

NextTranslate ==
    \/ Translate
    \/ Return

SpecTranslate == InitTranslate /\ [][NextTranslate]_vars

\* translate alone, over descriptors with policies: up to two EC2 nodes, each
\* with or without a scalable capability of its own, and up to MaxPolicies
\* policies, each with a target list and its own counts.
PolicyNodes ==
    {Node(n, TRUE, "ec2", "r1", 1, c, None, TRUE, {}) :
        n \in {NameA, NameB}, c \in {None, Some([min |-> 2, max |-> 3])}}

Policies ==
    {[targets |-> t, min |-> m, max |-> m + 2] :
        t \in {{NameA}, {NameB}, {NameA, NameB}}, m \in {3, 4}}

PolicyTemplates ==
    {[nodetemplates |-> ns, policies |-> ps] :
        ns \in {n \in UNION {[1..k -> PolicyNodes] : k \in 1..2} : UniqueNames(n)},
        ps \in UNION {[1..k -> Policies] : k \in 0..MaxPolicies}}

InitPolicy == InitPass(PolicyTemplates)

NextPolicy ==
    \/ Translate
    \/ Return

SpecPolicy == InitPolicy /\ [][NextPolicy]_vars

\* Passes that add no provider, over a volume that holds a committed build:
\* the descriptor is replaced by one whose nodes have no Terraform interface,
\* or have one but none of the supported cloud types (with and without a
\* context of their own), or by one with an EC2 node.
SkipPool ==
    {Node(NameA, FALSE, "ec2", "r1", 1, None, None, TRUE, {}),
     Node(NameB, TRUE, "ec2", "r1", 1, None, None, TRUE, {})}
    \cup {Node(NameA, TRUE, "none", "r1", 1, None, Ctx(FALSE, Some(1)), TRUE, {}),
          Node(NameB, TRUE, "none", "r1", 1, None, None, TRUE, {})}

SkipTemplates ==
    {[nodetemplates |-> ns, policies |-> << >>] :
        ns \in {n \in UNION {[1..k -> SkipPool] : k \in 0..2} : UniqueNames(n)}}

InitSkip ==
    /\ InitBuilt({1})
    /\ \A i \in DOMAIN template.nodetemplates :
          template.nodetemplates[i].cap = None /\ template.nodetemplates[i].ctx = None
    /\ contention = MaxLockReports

\* A new adaptor object with another descriptor, over the same volume.
Redescribe ==
    /\ pc = "idle"
    /\ \E tpl \in SkipTemplates, fl \in Flags : NewAdaptor(tpl, fl[1], fl[2], 1)
    /\ pc' = "idle"
    /\ UNCHANGED << fs_vars, contention, aux_vars >>

NextSkip ==
    \/ Redescribe
    \/ Return
    \/ Translate
    \/ Cleanup
    \/ ExecuteStart
    \/ UndeployStart
    \/ ExecRaise
    \/ ExecRetry
    \/ ExecNoMarker
    \/ InitDone
    \/ ApplyDone
    \/ DestroyDone
    \/ UpdateStart
    \/ UpdateDecide
    \/ RenameTf
    \/ RenameVars
    \/ RenameCi
    \/ UpdateExecute

SpecSkip == InitSkip /\ [][NextSkip]_vars

\* translate alone, over descriptors of one or two EC2 nodes with every kind
\* of context: none, one without append and without config, one with append
\* alone, and one with either of two configs (one of them with a section the
\* default template does not have), with and without append.
BootstrapContexts ==
    {None, Ctx(FALSE, None), Ctx(TRUE, None)}
    \cup {Ctx(a, Some(c)) : a \in BOOLEAN, c \in {1, 2}}

BootstrapPool ==
    {Node(n, TRUE, "ec2", "r1", 1, None, c, TRUE, {}) :
        n \in {NameA, NameB}, c \in BootstrapContexts}

BootstrapTemplates ==
    {[nodetemplates |-> ns, policies |-> << >>] :
        ns \in {n \in UNION {[1..k -> BootstrapPool] : k \in 1..2} : UniqueNames(n)}}

InitBootstrap == InitPass(BootstrapTemplates)

NextBootstrap ==
    \/ Translate
    \/ Return

SpecBootstrap == InitBootstrap /\ [][NextBootstrap]_vars

\* A TerraformDict on its own: add_provider, add_resource, add_data and
\* add_output called with names and values of a small pool, MaxCalls
\* different calls at most, any of them again at any time.
DictNames == {"n1", "n2"}
DictValues == {[v |-> 1], [v |-> 2]}

DictCalls == {"provider", "resource", "data", "output"} \X DictNames \X DictValues

DictCall(c) ==
    /\ pc = "idle"
    /\ c \in calls \/ Cardinality(calls) < MaxCalls
    /\ document' =
         CASE c[1] = "provider" -> add_provider(document, c[2], c[3])
           [] c[1] = "resource" -> add_resource(document, c[2], c[3])
           [] c[1] = "data" -> add_data(document, c[2], c[3])
           [] c[1] = "output" -> add_output(document, c[2], c[3])
    /\ calls' = calls \cup {c}
    /\ UNCHANGED << self_vars, fs_vars, ctl_vars, hist_vars, contention, app, other >>

AddProvider == \E c \in DictCalls : c[1] = "provider" /\ DictCall(c)
AddResource == \E c \in DictCalls : c[1] = "resource" /\ DictCall(c)
AddData == \E c \in DictCalls : c[1] = "data" /\ DictCall(c)
AddOutput == \E c \in DictCalls : c[1] = "output" /\ DictCall(c)

InitDict == Init /\ template = NoTemplate /\ dryrun

NextDict ==
    \/ AddProvider
    \/ AddResource
    \/ AddData
    \/ AddOutput

SpecDict == InitDict /\ [][NextDict]_vars

\* The executor and cleanup on a committed build, under an adaptor object
\* whose container lookup first succeeds on any try, or on none.
InitDiscovery == InitBuilt(1..(DISCOVERY_TRIES + 1))

\* A new adaptor object for the same descriptor over the same volume.
Reconstruct ==
    /\ pc = "idle"
    /\ \E found_at \in 1..(DISCOVERY_TRIES + 1) :
          NewAdaptor(template, FALSE, FALSE, found_at)
    /\ pc' = "idle"
    /\ UNCHANGED << fs_vars, contention, aux_vars >>

NextDiscovery ==
    \/ Reconstruct
    \/ Return
    \/ ExecuteStart
    \/ UndeployStart
    \/ ExecRaise
    \/ ExecRetry
    \/ ExecNoMarker
    \/ InitDone
    \/ ApplyDone
    \/ DestroyDone
    \/ Cleanup

SpecDiscovery == InitDiscovery /\ [][NextDiscovery]_vars

\* Two application ids over one volume, each with a descriptor of at most
\* one node, without capability or context; their adaptors find the container
\* on the first try.
SharedTemplates ==
    {tpl \in Templates :
        /\ Len(tpl.nodetemplates) <= 1
        /\ \A i \in DOMAIN tpl.nodetemplates :
              tpl.nodetemplates[i].cap = None /\ tpl.nodetemplates[i].ctx = None}

\* A new adaptor object for the other application id: its tf_file and
\* tf_file_tmp are the other id's paths, and every other path (variable file,
\* credential file, bootstrap documents) is the same path as before.
ConstructOther ==
    /\ pc = "released"
    /\ \E tpl \in SharedTemplates : NewAdaptor(tpl, FALSE, FALSE, 1)
    /\ pc' = "idle"
    /\ app' = IF app = APP_1 THEN APP_2 ELSE APP_1
    /\ tf_file' = other.tf_file
    /\ tf_file_tmp' = other.tf_file_tmp
    /\ other' = [tf_file |-> tf_file, tf_file_tmp |-> tf_file_tmp]
    /\ UNCHANGED << vars_file, vars_file_tmp, account_file, ci_file, ci_tmp,
                    contention, document, calls >>

InitShared == Init /\ template \in SharedTemplates /\ ~dryrun /\ ~validate /\ created

NextShared ==
    \/ Release
    \/ ConstructOther
    \/ Return
    \/ Translate
    \/ Cleanup
    \/ ExecuteStart
    \/ UndeployStart
    \/ ExecRaise
    \/ ExecRetry
    \/ ExecNoMarker
    \/ InitDone
    \/ ApplyDone
    \/ DestroyDone
    \/ UpdateStart
    \/ UpdateDecide
    \/ RenameTf
    \/ RenameVars
    \/ RenameCi
    \/ UpdateExecute

SpecShared == InitShared /\ [][NextShared]_vars

\* ================================================================ properties
\* The promotion of update() is under way.
Promoting == op = "update" /\ pc \in {"rename_tf", "rename_vars", "rename_ci"}

\* A staged file whose content its committed path does not hold yet.
PendingVars == IsSome(vars_file_tmp) /\ vars_file # vars_file_tmp
PendingCi == \E c \in ToRename : IsSome(ci_tmp[c]) /\ ci_file[c] # ci_tmp[c]

\* C1, as stated: during the promotion step of update() the committed set is
\* never partially promoted, some committed files already the new version
\* while others are still the old one.
C1_NeverPartiallyPromoted ==
    ~(Promoting /\ << "rename", P_TF >> \in events /\ (PendingVars \/ PendingCi))

\* One os.rename of the promotion: the staged content is the committed one
\* afterwards and the staged path is gone.
RenamedOnto(file, tmp, file2, tmp2) == IsSome(tmp) /\ file2 = tmp /\ tmp2 = None

\* C1, amended: every step of the promotion of update() replaces exactly one
\* committed file by the whole content of its staged file, which is gone
\* afterwards, and leaves every other committed file as it was; between two
\* steps the committed set may hold new and old files side by side.
C1_PromotionIsPerFile ==
    [][Promoting =>
         \/ /\ RenamedOnto(tf_file, tf_file_tmp, tf_file', tf_file_tmp')
            /\ UNCHANGED << vars_file, vars_file_tmp, account_file, ci_file, ci_tmp >>
         \/ /\ RenamedOnto(vars_file, vars_file_tmp, vars_file', vars_file_tmp')
            /\ UNCHANGED << tf_file, tf_file_tmp, account_file, ci_file, ci_tmp >>
         \/ /\ \E c \in cloud_inits :
                 /\ RenamedOnto(ci_file[c], ci_tmp[c], ci_file'[c], ci_tmp'[c])
                 /\ \A n \in Names \ {c} :
                        ci_file'[n] = ci_file[n] /\ ci_tmp'[n] = ci_tmp[n]
            /\ UNCHANGED << tf_file, tf_file_tmp, vars_file, vars_file_tmp,
                            account_file >>
         \/ UNCHANGED fs_vars]_vars

\* C1, witness: the graph is promoted, the variable file is still the old one.
C1_Witness ==
    /\ op = "update"
    /\ pc = "rename_vars"
    /\ IsSome(tf_file) /\ ~IsSome(tf_file_tmp)
    /\ IsSome(vars_file) /\ PendingVars

\* A committed path changes to hold content.
Rewritten(file, file2) == file2 # file /\ IsSome(file2)

\* C2, as stated: in every operation a committed artifact changes only by
\* its staged file being renamed onto it; nothing is written directly into
\* a committed path.
C2_OnlyRenames ==
    [][/\ Rewritten(tf_file, tf_file') =>
            RenamedOnto(tf_file, tf_file_tmp, tf_file', tf_file_tmp')
       /\ Rewritten(vars_file, vars_file') =>
            RenamedOnto(vars_file, vars_file_tmp, vars_file', vars_file_tmp')
       /\ ~Rewritten(account_file, account_file')
       /\ \A n \in Names :
            Rewritten(ci_file[n], ci_file'[n]) =>
              << "rename", P_CI(n) >> \in events' /\ ~IsSome(ci_tmp'[n])]_vars

\* The descriptor names a node for GCE.
HasGce == \E i \in DOMAIN template.nodetemplates :
            template.nodetemplates[i].cloud = "gce"

\* C2, amended: a committed bootstrap document changes only by its staged
\* file being renamed onto it; in update() the graph and the variable file
\* change only by such a rename; translate in build mode writes the graph
\* and the variable file directly into their committed paths; the GCE mapper
\* copies the credential file directly into its committed path in every
\* mode; validate mode writes no graph, variable or bootstrap file, and
\* execute and undeploy write no committed file at all.
C2_StagedOrDirect ==
    [][/\ \A n \in Names :
            Rewritten(ci_file[n], ci_file'[n]) =>
              << "rename", P_CI(n) >> \in events' /\ ~IsSome(ci_tmp'[n])
       /\ Rewritten(tf_file, tf_file') =>
            \/ op' = "update"
               /\ RenamedOnto(tf_file, tf_file_tmp, tf_file', tf_file_tmp')
            \/ op' = "translate" /\ ~validate
               /\ tf_file' = Some(GraphOf(tf_json'))
               /\ << "write", P_TF >> \in events'
       /\ Rewritten(vars_file, vars_file') =>
            \/ op' = "update"
               /\ RenamedOnto(vars_file, vars_file_tmp, vars_file', vars_file_tmp')
            \/ op' = "translate" /\ ~validate
               /\ vars_file' = Some(tf_json'.tfvars)
               /\ << "write", P_VARS >> \in events'
       /\ Rewritten(account_file, account_file') =>
            /\ op' \in {"translate", "update"}
            /\ HasGce
            /\ account_file' = Some(AUTH_GCE)
       /\ (op' = "translate" /\ validate) =>
            UNCHANGED << tf_file, vars_file, ci_file >>
       /\ op' \in {"execute", "undeploy"} =>
            UNCHANGED << tf_file, vars_file, ci_file, account_file >>]_vars

\* C2, witness: a build has written the graph and the variable file and has
\* renamed a staged bootstrap document into place.
C2_Witness ==
    /\ op = "translate"
    /\ pc = "done"
    /\ << "write", P_TF >> \in events
    /\ \E n \in Names : << "rename", P_CI(n) >> \in events /\ IsSome(ci_file[n])

\* The committed files are those of a build of the descriptor tpl.
CommittedBuildOf(tpl) ==
    LET st == BuildPass(tpl)
    IN  /\ st.err = "none"
        /\ st.tf.provider # EmptyMap
        /\ tf_file = Some(GraphOf(st.tf))
        /\ IsSome(vars_file)
        /\ DOMAIN Get(vars_file) = DOMAIN st.tf.tfvars
        /\ \A n \in st.cloud_inits : ci_file[n] = st.ci_tmp[n]

\* What update() does once translate(update=True) has staged an unchanged
\* descriptor, but for the history of file writes.
NoOpUpdate ==
    /\ tf_file_tmp = tf_file
    /\ status' = "Updated (nothing to update)"
    /\ pc' = "done" /\ outcome' = "ok"
    /\ UNCHANGED << tf_file, vars_file, ci_file, account_file >>
    /\ ran' = {}
    /\ tf_file_tmp' = None /\ vars_file_tmp' = None
    /\ \A n \in cloud_inits : ~IsSome(ci_tmp'[n])

\* C3, as stated: update() on a deployment whose descriptor and bootstrap
\* content are those of the committed build stages a graph identical to the
\* committed one, ends 'Updated (nothing to update)', renames or rewrites
\* no committed file, runs no external command and removes every staged file.
C3_UnchangedIsNoOp ==
    [][(op = "update" /\ pc = "upd_decide" /\ CommittedBuildOf(template)) =>
         /\ NoOpUpdate
         /\ \A e \in events' : e[1] \notin {"rename", "write"}]_vars

\* The same without a GCE node in the descriptor.
C3_UnchangedIsNoOpButGce ==
    [][(op = "update" /\ pc = "upd_decide" /\ CommittedBuildOf(template)) =>
         /\ NoOpUpdate
         /\ \A e \in events' : e[1] \in {"rename", "write"} => e[2] = P_ACCOUNT]_vars

\* update() has finished (returned or raised) on a new graph with providers
\* that differs from the committed graph, or with no committed graph at all.
GraphDiffered ==
    /\ op = "update"
    /\ tf_json.provider # EmptyMap
    /\ \/ branch = "tf"
       \/ branch \in {"staging", "nofile"} /\ ~IsSome(tf_file)

BothPromoted == {<< "rename", P_TF >>, << "rename", P_VARS >>} \subseteq events

\* The budget left of the incremental apply after the lock reports so far.
IncrementalApply ==
    /\ command = "apply"
    /\ "init" \notin ran
    /\ lock_timeout = UPDATE_LOCK_TIMEOUT - (LOCK_SLEEP * reports)

\* C4, as stated: when the new graph has providers and the staged graph
\* differs from the committed one, whether committed artifacts exist or not,
\* update() promotes the staged graph and the staged variable file and only
\* then runs apply, without init, with the incremental-update budget.
C4_PromotesThenApplies ==
    /\ (GraphDiffered /\ pc = "exec") => (BothPromoted /\ IncrementalApply)
    /\ (GraphDiffered /\ pc = "done") =>
          /\ BothPromoted
          /\ "init" \notin ran
          /\ (~dryrun /\ created) => "apply" \in ran

\* What C4 says where committed artifacts exist.
C4_WithCommittedArtifacts ==
    /\ (GraphDiffered /\ branch = "tf" /\ pc = "exec") =>
          (BothPromoted /\ IncrementalApply)
    /\ (GraphDiffered /\ branch = "tf" /\ pc = "done") =>
          /\ BothPromoted
          /\ "init" \notin ran
          /\ (~dryrun /\ created) => "apply" \in ran

AllPromoted == BothPromoted /\ RenameEvents(cloud_inits) \subseteq events

\* C5, as stated: with the graph unchanged and a bootstrap document changed,
\* update() promotes the changed bootstrap documents only: the committed
\* graph file and variable file are not replaced.
C5_OnlyChangedPromoted ==
    (op = "update" /\ branch = "ci" /\ pc \in {"exec", "done"}) =>
       /\ << "rename", P_TF >> \notin events
       /\ << "rename", P_VARS >> \notin events

\* C5, amended: with the graph unchanged and a bootstrap document changed,
\* update() renames every staged file of the pass into place, the graph, the
\* variable file and each bootstrap document, changed or not; what is
\* committed then is the staged content and no staged file is left; it then
\* runs apply alone with the incremental-update budget, or nothing at all in
\* a dry run.
C5_EverythingPromoted ==
    (op = "update" /\ branch = "ci" /\ pc \in {"exec", "done"}) =>
       /\ AllPromoted
       /\ tf_file = Some(GraphOf(tf_json))
       /\ vars_file = Some(tf_json.tfvars)
       /\ ~IsSome(tf_file_tmp) /\ ~IsSome(vars_file_tmp)
       /\ \A c \in cloud_inits : IsSome(ci_file[c]) /\ ~IsSome(ci_tmp[c])
       /\ pc = "exec" => IncrementalApply
       /\ "init" \notin ran
       /\ dryrun => (pc = "done" /\ ran = {} /\ outcome = "ok")
       /\ (pc = "done" /\ outcome = "ok") => status = "Updated cloud_init files"

\* C5, witness: the update has promoted on a changed bootstrap document alone
\* and its apply has succeeded.
C5_Witness ==
    /\ op = "update" /\ branch = "ci" /\ pc = "done" /\ outcome = "ok"
    /\ "apply" \in ran
    /\ AllPromoted

Committed == << tf_file, vars_file, ci_file, account_file >>

\* This step removes the committed graph file within update().
RemovesCommitted == op' = "update" /\ IsSome(tf_file) /\ ~IsSome(tf_file')

\* This step is an answer to the destroy of update() without its marker.
DestroyFails ==
    op = "update" /\ pc = "exec" /\ command = "destroy" /\ ~result'.marker

\* C6, as stated: when the new graph has no providers and committed
\* artifacts exist, in every execution, dry-run or not, the committed
\* artifacts are removed only after a destroy that succeeded in the same
\* update, and they stay in place when destroy fails.
C6_RemovalAfterDestroy ==
    [][/\ RemovesCommitted =>
            (pc = "exec" /\ command = "destroy" /\ result'.marker)
       /\ DestroyFails => UNCHANGED Committed]_vars

\* update() is about to take the arm of a graph without providers over
\* committed artifacts.
UndeployArm ==
    /\ op = "update" /\ pc = "upd_decide"
    /\ tf_json.provider = EmptyMap
    /\ IsSome(tf_file)

AllRemoved ==
    /\ ~IsSome(tf_file') /\ ~IsSome(vars_file') /\ ~IsSome(account_file')
    /\ \A n \in Names : ~IsSome(ci_file'[n])

\* C6, amended: when the new graph has no providers and committed artifacts
\* exist, an update that is not a dry run runs destroy with the destroy
\* budget and removes the committed artifacts only once that destroy has
\* succeeded; they stay in place when destroy fails or no container is
\* attached.  A dry run runs no destroy and removes the committed artifacts
\* all the same, ending 'Updated (undeployed)'.
C6_DestroyUnlessDryRun ==
    [][/\ RemovesCommitted =>
            IF dryrun
            THEN pc = "upd_decide" /\ ran' = {}
            ELSE /\ pc = "exec" /\ command = "destroy"
                 /\ result'.marker /\ result'.exit = 0
                 /\ "destroy" \in ran'
       /\ DestroyFails => UNCHANGED Committed
       /\ UndeployArm =>
            IF dryrun
            THEN /\ AllRemoved
                 /\ pc' = "done" /\ outcome' = "ok"
                 /\ status' = "Updated (undeployed)"
            ELSE /\ UNCHANGED Committed
                 /\ IF created
                    THEN /\ pc' = "exec" /\ command' = "destroy"
                         /\ lock_timeout' = DESTROY_LOCK_TIMEOUT
                    ELSE pc' = "done" /\ outcome' = "critical"]_vars

\* C6, witness: a dry-run update has removed the committed artifacts and
\* has run nothing.
C6_Witness ==
    /\ op = "update" /\ branch = "undeploy" /\ pc = "done"
    /\ dryrun
    /\ << "remove", P_TF >> \in events
    /\ ~IsSome(tf_file)
    /\ ran = {}

\* The pass that starts with this step fails at one of its nodes.
PassFails ==
    /\ pc = "idle"
    /\ \/ op' = "translate" /\ NodePass(min_instances, max_instances).err # "none"
       \/ op' = "update" /\ NodePass(1, 1).err # "none"

\* C7, as stated: when translate, in any mode, fails at a node of the pass,
\* the committed graph file, variable file, bootstrap documents and
\* credential file are what they were before the pass.
C7_FailedPassCommitsNothing == [][PassFails => UNCHANGED Committed]_vars

\* The same for all but the credential file.
C7_FailedPassKeepsGraph ==
    [][PassFails => UNCHANGED << tf_file, vars_file, ci_file >>]_vars

\* The node of the descriptor with this name, and its resolved min_instances.
NodeNamed(n) ==
    CHOOSE nd \in {template.nodetemplates[i] : i \in DOMAIN template.nodetemplates} :
        nd.name = n

ResolvedMin(n) == get_policies(template, NodeNamed(n)).min

\* The names a pass makes variables for.
PassNames ==
    {template.nodetemplates[i].name : i \in
        {j \in DOMAIN template.nodetemplates :
            /\ template.nodetemplates[j].iface
            /\ template.nodetemplates[j].cloud \in SUPPORTED_CLOUDS}}

\* A build has just committed its variable document.
BuildCommitted ==
    op = "translate" /\ pc = "done" /\ status = "Translated" /\ ~validate

\* translate(update=True) has just staged its variable document.
Staged ==
    /\ op = "update" /\ pc = "upd_decide"
    /\ tf_json.provider # EmptyMap
    /\ IsSome(vars_file) /\ IsSome(vars_file_tmp)

LengthIsMin(doc) == \A n \in DOMAIN doc : Len(doc[n]) = ResolvedMin(n)

\* C8, as stated: in every variable document translate produces, committed
\* by a build or staged by an update, each node's token list is as long as
\* the node's resolved min_instances of the pass.
C8_LengthIsMin ==
    /\ BuildCommitted => LengthIsMin(Get(vars_file))
    /\ Staged => LengthIsMin(Get(vars_file_tmp))

\* C8, amended: in the variable document a build commits, each node's token
\* list is as long as the node's resolved min_instances; in the one an
\* update stages this holds for the names the committed document lacks,
\* while a name the committed document has keeps the committed list,
\* whatever min_instances now is.
C8_LengthIsMinUnlessKept ==
    /\ BuildCommitted => LengthIsMin(Get(vars_file))
    /\ Staged =>
          \A n \in DOMAIN Get(vars_file_tmp) :
             IF n \in DOMAIN Get(vars_file)
             THEN Get(vars_file_tmp)[n] = Get(vars_file)[n]
             ELSE Len(Get(vars_file_tmp)[n]) = ResolvedMin(n)

\* C8, witness: a staged list that is not as long as min_instances.
C8_Witness ==
    /\ Staged
    /\ \E n \in DOMAIN Get(vars_file_tmp) :
          /\ n \in DOMAIN Get(vars_file)
          /\ Len(Get(vars_file_tmp)[n]) # ResolvedMin(n)

\* The list "1" .. str(count).
IsFresh(l, count) == Len(l) = count /\ \A i \in 1..count : l[i] = Str(i)

\* C9: after update_instance_vars(old) the variable set has exactly the node
\* names of the new pass; a name old has carries old's list, a name old
\* lacks carries "1" .. str(count), and a name of old alone is not there.
C9_MergeByName ==
    Staged =>
       LET old == Get(vars_file)
           new == Get(vars_file_tmp)
       IN  /\ DOMAIN new = PassNames
           /\ new = tf_json.tfvars
           /\ \A n \in DOMAIN new :
                 IF n \in DOMAIN old THEN new[n] = old[n]
                 ELSE IsFresh(new[n], ResolvedMin(n))

\* C9, witness: one name keeps an old list that a fresh one would differ
\* from, another name is new.
C9_Witness ==
    /\ Staged
    /\ \E n \in DOMAIN Get(vars_file_tmp) \cap DOMAIN Get(vars_file) :
          ~IsFresh(Get(vars_file)[n], ResolvedMin(n))
    /\ \E m \in DOMAIN Get(vars_file_tmp) : m \notin DOMAIN Get(vars_file)

\* This step runs the command again with the budget counted down.
Retried ==
    /\ pc' = "exec" /\ command' = command
    /\ lock_timeout' = lock_timeout - LOCK_SLEEP

Fatal == pc' = "done" /\ outcome' = "critical"

\* This step enters _terraform_exec with a command.
EnterExec == pc' = "exec" /\ (pc # "exec" \/ command' # command)

\* The budget of the command entered: of destroy, of the incremental apply,
\* of a fresh init or apply.
Budget ==
    IF command' = "destroy" THEN DESTROY_LOCK_TIMEOUT
    ELSE IF command' = "apply" /\ (branch' = "incremental" \/ op' = "update")
    THEN UPDATE_LOCK_TIMEOUT
    ELSE FRESH_LOCK_TIMEOUT

Budgets ==
    /\ FRESH_LOCK_TIMEOUT = 0
    /\ 0 < UPDATE_LOCK_TIMEOUT
    /\ UPDATE_LOCK_TIMEOUT < DESTROY_LOCK_TIMEOUT
    /\ EnterExec => lock_timeout' = Budget

\* C10, as stated: a result with the lock signature is retried, the budget
\* counted down, whenever budget remains, and is never fatal while budget
\* remains; the budget is zero for a fresh init or apply, bounded for the
\* incremental apply and larger for destroy.
C10_LockRetriedWithinBudget ==
    [][/\ (pc = "exec" /\ result'.lock /\ lock_timeout > 0) => Retried
       /\ Budgets]_vars

\* C10, amended: a non-zero exit code is fatal at once, with or without the
\* lock signature and whatever budget remains; a result with exit code zero
\* and the lock signature is retried, the budget counted down by the sleep
\* interval, whenever budget remains; with no budget left it goes back to
\* the caller like any other result and is fatal unless it holds the success
\* marker.  The budget is 0 for a fresh init or apply, 300 for the
\* incremental apply and 600 for destroy.
C10_RetryOnZeroExit ==
    [][/\ (pc = "exec" /\ result'.exit > 0) => Fatal
       /\ (pc = "exec" /\ result'.exit = 0 /\ result'.lock /\ lock_timeout > 0) =>
            Retried
       /\ (pc = "exec" /\ result'.exit = 0 /\ ~(result'.lock /\ lock_timeout > 0)) =>
            /\ ~Retried
            /\ Fatal <=> ~result'.marker
       /\ Budgets]_vars

\* C10, witness: destroy has been retried until its budget is used up.
C10_Witness ==
    /\ pc = "exec" /\ command = "destroy"
    /\ result.lock /\ result.exit = 0
    /\ lock_timeout = 0
    /\ reports = DESTROY_LOCK_TIMEOUT \div LOCK_SLEEP

\* ------------------------------------------------------------------- C11
\* The apply command is in the executor and has been answered n times.
ApplyAttempt(n) == pc = "exec" /\ command = "apply" /\ reports = n

\* The backend reports lock contention, and not the success marker.
LockReport == result'.lock /\ ~result'.marker

\* The backend answers with exit code zero and the success marker alone.
Success == result'.exit = 0 /\ result'.marker /\ ~result'.lock

\* A budget that allows at least three attempts, one that allows only one.
ThreeAttempts == lock_timeout = UPDATE_LOCK_TIMEOUT - reports * LOCK_SLEEP
OneAttempt == lock_timeout = FRESH_LOCK_TIMEOUT

\* C11, as stated: when the backend reports lock contention on the first two
\* invocations of apply and succeeds on the third, apply under a budget that
\* allows three attempts is retried twice and then succeeds, and apply under
\* a budget that allows one attempt ends in the fatal error on the first
\* report.
C11_ThirdAttemptSucceeds ==
    [][/\ (\E n \in {0, 1} : ApplyAttempt(n) /\ ThreeAttempts /\ LockReport) =>
            Retried
       /\ (ApplyAttempt(2) /\ ThreeAttempts /\ Success) =>
            pc' = "done" /\ outcome' = "ok"
       /\ (ApplyAttempt(0) /\ OneAttempt /\ LockReport) => Fatal]_vars

\* C11, amended: when the backend reports lock contention with exit code
\* zero on the first two invocations of apply and succeeds on the third,
\* the incremental apply (budget 300, five per retry) is retried twice and
\* then succeeds with status "executed"; a lock report with a non-zero exit
\* code is fatal on whichever attempt it comes; the fresh apply (budget 0)
\* ends in the fatal error on the first lock report.
C11_ThirdAttemptSucceedsOnZeroExit ==
    [][/\ (\E n \in {0, 1} : ApplyAttempt(n) /\ ThreeAttempts /\ LockReport) =>
            IF result'.exit = 0 THEN Retried /\ reports' = reports + 1 ELSE Fatal
       /\ (ApplyAttempt(2) /\ ThreeAttempts /\ Success) =>
            pc' = "done" /\ outcome' = "ok" /\ status' = "executed"
       /\ (ApplyAttempt(0) /\ OneAttempt /\ LockReport) => Fatal]_vars

\* C11, witness: the incremental apply has been retried on two lock reports
\* and is about to run the third time.
C11_Witness ==
    /\ ApplyAttempt(2) /\ branch = "incremental"
    /\ lock_timeout = UPDATE_LOCK_TIMEOUT - 2 * LOCK_SLEEP
    /\ result.lock /\ result.exit = 0 /\ ~result.marker

\* ------------------------------------------------------------------- C12
\* The answer of this step has exit code zero and the success marker.
ZeroAndMarker == result'.exit = 0 /\ result'.marker

\* C12: the status becomes "executed" only in a step in which apply returns
\* exit code zero and its success marker, init (when the execute is a fresh
\* one) having returned zero and its marker before apply was started; it
\* becomes "undeployed" only in a step in which destroy returns zero and its
\* marker; an answer with a non-zero exit code raises the fatal error, and so
\* does an answer without the marker unless it is a lock report that is run
\* again.
C12_StatusOnlyAfterSuccess ==
    [][/\ (status' = "executed" /\ status # "executed") =>
            /\ pc = "exec" /\ command = "apply" /\ ZeroAndMarker
            /\ branch = "fresh" => "init" \in ran
       /\ (pc = "exec" /\ command = "init" /\ command' = "apply") => ZeroAndMarker
       /\ (status' = "undeployed" /\ status # "undeployed") =>
            pc = "exec" /\ command = "destroy" /\ ZeroAndMarker
       /\ (pc = "exec" /\ result'.exit > 0) => Fatal
       /\ (pc = "exec" /\ ~result'.marker /\ ~Retried) => Fatal
       /\ (pc = "exec" /\ Fatal) => status' = status /\ status \in {"executing", "undeploying"}]_vars

\* C12, witness: a fresh execute has ended with status "executed", init and
\* apply run, the last answer with exit code zero and the marker.
C12_Witness ==
    /\ pc = "done" /\ op = "execute" /\ branch = "fresh" /\ outcome = "ok"
    /\ status = "executed"
    /\ ran = {"init", "apply"}
    /\ result.exit = 0 /\ result.marker

\* ------------------------------------------------------------------- C13
\* The statuses that say an operation completed.
CompletionStatus ==
    {"Translated", "executed", "undeployed", "Updated (undeployed)",
     "Updated Terraform file", "Updated cloud_init files",
     "Updated (nothing to update)"}

\* The operation has ended by raising.
EndedFatal ==
    /\ pc = "done"
    /\ op \in {"translate", "execute", "undeploy", "update"}
    /\ outcome \in {"critical", "crash"}

\* C13: when translate, execute, undeploy or update has ended by raising, the
\* status is not one of the completion statuses.
C13_FatalIsNotCompletion == EndedFatal => status \notin CompletionStatus

\* ------------------------------------------------------------------- C14
\* The nodes of the graph the other application id has committed.
OtherNodes ==
    IF IsSome(other.tf_file) THEN DOMAIN Get(other.tf_file).variable ELSE {}

\* The token list the variable file holds for a node (None without one).
TokensOf(file, n) ==
    IF IsSome(file) /\ n \in DOMAIN Get(file) THEN Some(Get(file)[n]) ELSE None

\* The other id's graph uses the credential file.
OtherUsesCredentials ==
    IsSome(other.tf_file) /\ "google" \in DOMAIN Get(other.tf_file).provider

\* C14: a step of an operation of one application id leaves the artifacts of
\* the other application id as they were: its graph file and staged graph
\* file, the token lists of its nodes in the variable file, the bootstrap
\* documents of its nodes, and the credential file its graph refers to.
C14_OtherIdUntouched ==
    [][app' = app =>
         /\ other' = other
         /\ \A n \in OtherNodes :
               /\ ci_file'[n] = ci_file[n]
               /\ TokensOf(vars_file', n) = TokensOf(vars_file, n)
         /\ OtherUsesCredentials => account_file' = account_file]_vars

\* ------------------------------------------------------------------- C15
\* This step is the whole of an execute or undeploy that gets past _skip_check.
ReachesCommand ==
    /\ pc = "idle" /\ op' \in {"execute", "undeploy"}
    /\ _skip_check = ""

\* This step is a cleanup that finds the committed graph.
CleansUp == pc = "idle" /\ op' = "cleanup" /\ _config_file_exists

\* C15: the container is looked up at most DISCOVERY_TRIES times, and all of
\* them when it is never found; without a container every execute and
\* undeploy that gets as far as a command ends in the fatal error with no
\* command run, and cleanup ends normally with the committed graph, variable
\* file, credential file and bootstrap documents removed.
C15_NoContainerNoCommand ==
    [][/\ lookups' \in 1..DISCOVERY_TRIES
       /\ ~created' => lookups' = DISCOVERY_TRIES
       /\ ~created =>
            /\ pc' # "exec" /\ ran' = {}
            /\ ReachesCommand => Fatal /\ status' \in {"executing", "undeploying"}
            /\ CleansUp =>
                 /\ pc' = "done" /\ outcome' = "ok"
                 /\ tf_file' = None /\ vars_file' = None /\ account_file' = None
                 /\ ci_file' = NoFiles]_vars

\* C15, witness: after DISCOVERY_TRIES failed lookups an execute of a
\* committed build has ended in the fatal error with no command run.
C15_Witness ==
    /\ ~created /\ lookups = DISCOVERY_TRIES
    /\ pc = "done" /\ op = "execute" /\ outcome = "critical"
    /\ IsSome(tf_file)
    /\ ran = {}

\* ------------------------------------------------------------------- C16
\* C16: a call of add_provider, add_resource, add_data or add_output with the
\* arguments of an earlier call on the same document leaves the document as
\* it is.
C16_RepeatedCallNoChange ==
    [][calls' = calls => document' = document]_vars

\* C16, witness: all four operations have been called, two of them with the
\* same name and different values, and the document holds what the first
\* calls put there.
C16_Witness ==
    /\ {c[1] : c \in calls} = {"provider", "resource", "data", "output"}
    /\ \E c1, c2 \in calls : c1[1] = c2[1] /\ c1[2] = c2[2] /\ c1[3] # c2[3]
    /\ document.provider # EmptyMap /\ document.resource # EmptyMap
    /\ document.data # EmptyMap /\ document.output # EmptyMap

\* ------------------------------------------------------------------- C17
\* This step is a whole translate().
TranslateStep == pc = "idle" /\ op' = "translate"

TplNodes == template.nodetemplates

\* The node gets as far as the mapper of its cloud.
Mapped(n) ==
    /\ ~HasUnderscore(n.name)
    /\ n.iface
    /\ n.ctx # Ctx(TRUE, None)

AwsNode(i) == Mapped(TplNodes[i]) /\ TplNodes[i].cloud = "ec2"

\* The pass gets as far as node j: no node before it raises.
PrefixOk(j) ==
    translate_nodes(template,
                    PassState(cloud_inits, ci_tmp, account_file, node_name,
                              min_instances, max_instances),
                    SubSeq(TplNodes, 1, j - 1)).err = "none"

\* The names of the nodes with an aws_instance stanza in the document.
AwsAccepted(d) ==
    IF "aws_instance" \in DOMAIN d.resource
    THEN {d.resource["aws_instance"][k].node : k \in DOMAIN d.resource["aws_instance"]}
    ELSE {}

\* Node j is an AWS node that the pass reaches after an earlier AWS node.
LaterAws(j) ==
    /\ AwsNode(j) /\ PrefixOk(j)
    /\ \E i \in 1..(j - 1) : AwsNode(i)

\* The region of the first AWS node of the descriptor.
FirstAwsRegion == TplNodes[CHOOSE i \in DOMAIN TplNodes :
                              AwsNode(i) /\ \A k \in 1..(i - 1) : ~AwsNode(k)].region

NothingCommitted == UNCHANGED << tf_file, vars_file, ci_file >>

\* C17, as stated: an AWS node whose region differs from the region of an AWS
\* node processed earlier in the pass raises the fatal error, so the region
\* of the aws provider is the region of every AWS node accepted, and the
\* pass commits no document.
C17_OneAwsRegion ==
    [][TranslateStep =>
         /\ \A j \in DOMAIN TplNodes :
               (LaterAws(j) /\ \E i \in 1..(j - 1) :
                                  AwsNode(i) /\ TplNodes[i].region # TplNodes[j].region)
               => outcome' = "critical" /\ NothingCommitted
         /\ \A j \in DOMAIN TplNodes :
               (AwsNode(j) /\ TplNodes[j].name \in AwsAccepted(tf_json'))
               => tf_json'.provider["aws"].region = TplNodes[j].region]_vars

\* C17, what holds instead: the aws provider carries the region of the first AWS node of
\* the pass.  When that region is not empty, a later AWS node with another
\* region raises the fatal error, the pass commits no document, and the
\* provider's region is the region of every AWS node accepted.  When the
\* first region is the empty string, later AWS nodes are accepted whatever
\* their region.
C17_OneAwsRegionUnlessEmpty ==
    [][TranslateStep =>
         /\ \A j \in DOMAIN TplNodes :
               LaterAws(j) =>
                  IF FirstAwsRegion # "" /\ TplNodes[j].region # FirstAwsRegion
                  THEN /\ outcome' = "critical" /\ status' = "translating..."
                       /\ NothingCommitted
                       /\ TplNodes[j].name \notin AwsAccepted(tf_json')
                  ELSE TplNodes[j].name \in AwsAccepted(tf_json')
         /\ \A j \in DOMAIN TplNodes :
               (AwsNode(j) /\ TplNodes[j].name \in AwsAccepted(tf_json'))
               => /\ tf_json'.provider["aws"].region = FirstAwsRegion
                  /\ FirstAwsRegion # "" => TplNodes[j].region = FirstAwsRegion]_vars

\* ------------------------------------------------------------------- C18
\* A build or validate pass has ended normally over a descriptor whose nodes
\* are all mapped and fully specified.
TranslatedAll ==
    /\ pc = "done" /\ op = "translate" /\ outcome = "ok"
    /\ TplNodes # << >>
    /\ \A i \in DOMAIN TplNodes : Mapped(TplNodes[i]) /\ TplNodes[i].complete

\* The provider a cloud type is mapped to.
ProviderOf(cloud) ==
    CASE cloud = "ec2" -> "aws"
      [] cloud = "nova" -> "openstack"
      [] cloud = "azure" -> "azurerm"
      [] cloud = "gce" -> "google"

\* The number of resource stanzas of a document, over all resource types.
Stanzas(d) ==
    Cardinality(UNION {{<< r, k >> : k \in DOMAIN d.resource[r]} :
                          r \in DOMAIN d.resource})

\* The (cloud type, scope) pairs of the descriptor.
Scopes == {<< TplNodes[i].cloud, TplNodes[i].region >> : i \in DOMAIN TplNodes}

\* The first node of the descriptor with the cloud type of node i.
FirstOfCloud(i) ==
    TplNodes[CHOOSE k \in DOMAIN TplNodes :
                /\ TplNodes[k].cloud = TplNodes[i].cloud
                /\ \A m \in 1..(k - 1) : TplNodes[m].cloud # TplNodes[i].cloud]

AzureNodes == {i \in DOMAIN TplNodes : TplNodes[i].cloud = "azure"}

\* C18, as stated: a pass over N fully specified nodes leaves a document with
\* one provider entry per distinct (cloud type, scope) pair and exactly N
\* resource stanzas.
C18_ProviderPerScope ==
    TranslatedAll =>
        /\ Cardinality(DOMAIN tf_json.provider) = Cardinality(Scopes)
        /\ Stanzas(tf_json) = Len(TplNodes)

\* C18, amended: a pass over N fully specified nodes leaves a document with
\* one provider entry per distinct cloud type, which is the entry of the
\* first node of that type whatever scope later nodes of the type declare,
\* and with one resource stanza for each EC2, Nova and GCE node and three for
\* each Azure node (network interface, security association, machine), four
\* when the Azure node asks for a public address.
C18_ProviderPerCloud ==
    TranslatedAll =>
        /\ DOMAIN tf_json.provider =
              {ProviderOf(TplNodes[i].cloud) : i \in DOMAIN TplNodes}
        /\ \A i \in DOMAIN TplNodes :
              TplNodes[i].cloud # "azure" =>
                 tf_json.provider[ProviderOf(TplNodes[i].cloud)].region =
                    FirstOfCloud(i).region
        /\ Stanzas(tf_json) =
              Len(TplNodes) + 2 * Cardinality(AzureNodes)
              + Cardinality({i \in AzureNodes : "public_ip" \in TplNodes[i].opts})

\* C18, witness: a pass over an Azure node with a public address and a Nova
\* node has ended normally, with two providers and five resource stanzas.
C18_Witness ==
    /\ TranslatedAll
    /\ Len(TplNodes) = 2
    /\ TplNodes[1].cloud = "azure" /\ "public_ip" \in TplNodes[1].opts
    /\ TplNodes[2].cloud = "nova"
    /\ DOMAIN tf_json.provider = {"azurerm", "openstack"}
    /\ Stanzas(tf_json) = 5

\* ------------------------------------------------------------------- C19
\* Node j has an underscore in its name and the pass gets as far as it.
UnderscoreAt(j) ==
    /\ "_" \in {TplNodes[j].name[k] : k \in DOMAIN TplNodes[j].name}
    /\ PrefixOk(j)

\* The providers of the nodes before node j that get to their mapper.
ProvidersBefore(j) ==
    {ProviderOf(TplNodes[i].cloud) : i \in {k \in 1..(j - 1) : Mapped(TplNodes[k])}}

AppendAt(j) ==
    /\ \A k \in DOMAIN TplNodes[j].name : TplNodes[j].name[k] # "_"
    /\ TplNodes[j].iface
    /\ IsSome(TplNodes[j].ctx)
    /\ Get(TplNodes[j].ctx).append /\ ~IsSome(Get(TplNodes[j].ctx).cfg)
    /\ PrefixOk(j)

NothingStaged == UNCHANGED << tf_file_tmp, vars_file_tmp, ci_tmp >>

\* C20, as stated: a pass over a descriptor with a node that asks to append
\* without a config raises the fatal error, and the pass has then written no
\* file, staged or committed.
C20_AppendBeforeAnyFile ==
    [][TranslateStep =>
         \A j \in DOMAIN TplNodes :
            AppendAt(j) =>
               /\ outcome' = "critical"
               /\ NothingStaged /\ NothingCommitted
               /\ account_file' = account_file]_vars

\* C20, amended: the pass raises the fatal error when it comes to the context
\* of that node, before any file is written for that node and before
\* anything is committed; the staged bootstrap documents of the mapped nodes
\* that precede it have been written by then, and the credential file when a
\* GCE node precedes it.
C20_AppendBeforeOwnFile ==
    [][TranslateStep =>
         \A j \in DOMAIN TplNodes :
            AppendAt(j) =>
               /\ outcome' = "critical" /\ status' = "translating..."
               /\ NothingCommitted
               /\ UNCHANGED << tf_file_tmp, vars_file_tmp >>
               /\ \A i \in DOMAIN TplNodes :
                     IF i < j /\ Mapped(TplNodes[i])
                     THEN IsSome(ci_tmp'[TplNodes[i].name])
                     ELSE ci_tmp'[TplNodes[i].name] = ci_tmp[TplNodes[i].name]
               /\ account_file' # account_file =>
                     \E i \in 1..(j - 1) :
                        Mapped(TplNodes[i]) /\ TplNodes[i].cloud = "gce"]_vars

\* C20, witness: a pass has ended in the fatal error at a node that appends
\* without a config and follows a mapped node, whose staged bootstrap
\* document is on the volume while the failing node has none.
C20_Witness ==
    /\ pc = "done" /\ op = "translate" /\ outcome = "critical"
    /\ Len(TplNodes) = 2
    /\ Mapped(TplNodes[1]) /\ TplNodes[2].ctx = Ctx(TRUE, None)
    /\ IsSome(ci_tmp[TplNodes[1].name])
    /\ ci_tmp[TplNodes[2].name] = None
    /\ tf_file = None /\ vars_file = None

\* ------------------------------------------------------------------- C21
\* The policies of the descriptor whose target list names the node.
Naming(n) ==
    {k \in DOMAIN template.policies : n.name \in template.policies[k].targets}

\* The counts claimed for a node: of its own capability, else of the last
\* policy that names it, else one and one.
Resolved(n) ==
    IF n.cap # None THEN [min |-> n.cap[1].min, max |-> n.cap[1].max]
    ELSE IF Naming(n) # {}
    THEN LET k == CHOOSE x \in Naming(n) : \A y \in Naming(n) : y <= x
         IN  [min |-> template.policies[k].min, max |-> template.policies[k].max]
    ELSE [min |-> 1, max |-> 1]

\* A build or validate pass has ended normally.
PassDone == pc = "done" /\ op = "translate" /\ outcome = "ok"

\* C21: after a pass, the token list of every node is "1" .. its resolved
\* min_instances, where the resolved counts of a node are those of its own
\* scalable capability when it has one, whether or not a policy names it,
\* otherwise those of a policy that names it (the last such policy of the
\* descriptor), otherwise one and one with the token list ["1"]; the counts
\* depend on the node and the policies alone, not on the nodes before it,
\* and the object is left with the counts of the last node.
C21_CountsPerNode ==
    PassDone =>
        /\ \A i \in DOMAIN TplNodes :
              LET n == TplNodes[i]
              IN  /\ IsFresh(tf_json.tfvars[n.name], Resolved(n).min)
                  /\ (n.cap = None /\ Naming(n) = {}) =>
                        tf_json.tfvars[n.name] = << "1" >>
        /\ min_instances = Resolved(TplNodes[Len(TplNodes)]).min
        /\ max_instances = Resolved(TplNodes[Len(TplNodes)]).max

\* C21, witness: a pass over two nodes has ended: the first has a capability
\* and is named by a policy with other counts, the second has neither and
\* comes after it with the token list ["1"].
C21_Witness ==
    /\ PassDone
    /\ Len(TplNodes) = 2
    /\ TplNodes[1].cap # None /\ Naming(TplNodes[1]) # {}
    /\ TplNodes[2].cap = None /\ Naming(TplNodes[2]) = {}
    /\ Len(tf_json.tfvars[TplNodes[1].name]) = 2
    /\ tf_json.tfvars[TplNodes[2].name] = << "1" >>
    /\ min_instances = 1 /\ max_instances = 1

\* ------------------------------------------------------------------- C22
\* The committed artifacts: graph, variable file, bootstrap documents and
\* credential file.
CommittedSet == << tf_file, vars_file, ci_file, account_file >>

\* translate(update=False) ends normally with no provider in its document.
EmptyBuild ==
    /\ pc = "idle" /\ op' = "translate"
    /\ pc' = "done" /\ outcome' = "ok"
    /\ tf_json'.provider = EmptyMap

\* translate(update=True) returns to update() with no provider in its document.
EmptyStaging ==
    /\ pc = "idle" /\ op' = "update"
    /\ pc' = "upd_decide"
    /\ tf_json'.provider = EmptyMap

\* update() goes on after such a pass, and there is no committed graph.
EmptyUpdate ==
    /\ pc = "upd_decide"
    /\ tf_json.provider = EmptyMap
    /\ tf_file = None

\* C22: a pass that ends without any provider reports "Skipped" and creates,
\* changes and removes no committed artifact (graph, variable file, bootstrap
\* document, credential file); update() after such a pass, with no committed
\* graph, ends normally with status "Skipped", the committed artifacts as
\* they were, no staged file of the pass left and no external command run.
C22_SkippedTouchesNothing ==
    [][/\ (EmptyBuild \/ EmptyStaging) =>
             /\ status' = "Skipped"
             /\ CommittedSet' = CommittedSet
             /\ ran' = {}
       /\ EmptyUpdate =>
             /\ pc' = "done" /\ outcome' = "ok"
             /\ status' = "Skipped"
             /\ CommittedSet' = CommittedSet
             /\ tf_file_tmp' = None /\ vars_file_tmp' = None
             /\ \A n \in cloud_inits : ci_tmp'[n] = None
             /\ ran' = {}]_vars

\* C22, witness: an update whose pass wrote a staged bootstrap document and
\* added no provider has ended "Skipped", with a committed variable file and
\* bootstrap document of an earlier build still in place and no graph.
C22_Witness ==
    /\ pc = "done" /\ op = "update" /\ branch = "skip"
    /\ status = "Skipped"
    /\ cloud_inits # {}
    /\ tf_file = None
    /\ ran = {}

\* C22, witness of the build case: a build over a committed deployment has
\* ended "Skipped" after writing a staged bootstrap document.
C22_WitnessBuild ==
    /\ pc = "done" /\ op = "translate" /\ status = "Skipped"
    /\ tf_file # None /\ vars_file # None
    /\ \E n \in cloud_inits : ci_tmp[n] # None

\* ------------------------------------------------------------------- C23
\* execute() or undeploy() is called.
ExecOrUndeploy == pc = "idle" /\ op' \in {"execute", "undeploy"}

\* The call returns at once with status s and nothing run.
ReturnsWith(s) ==
    /\ pc' = "done" /\ outcome' = "ok"
    /\ status' = s
    /\ ran' = {} /\ command' = "none"

\* C23: a dry-run adaptor never looks the container up and has none; a command
\* is handed to the container only by an adaptor that is not in dry-run mode,
\* and only while the committed graph exists; execute and undeploy return at
\* once with nothing run, "Skipped" when the committed graph is missing and
\* "DRY-RUN Deployment" when it exists and dry-run is on.
C23_CommandsOnlyLive ==
    [][/\ dryrun => (lookups = 0 /\ ~created)
       /\ dryrun' => (lookups' = 0 /\ ~created')
       /\ (pc' = "exec" \/ ran' \ ran # {}) => (~dryrun /\ tf_file # None)
       /\ (ExecOrUndeploy /\ tf_file = None) => ReturnsWith("Skipped")
       /\ (ExecOrUndeploy /\ tf_file # None /\ dryrun) =>
             ReturnsWith("DRY-RUN Deployment")]_vars

\* C23, witness: execute of a dry-run adaptor over a committed graph has
\* returned "DRY-RUN Deployment" with nothing run and no lookup made.
C23_Witness ==
    /\ pc = "done" /\ op = "execute"
    /\ dryrun /\ tf_file # None
    /\ status = "DRY-RUN Deployment"
    /\ ran = {} /\ lookups = 0

\* ------------------------------------------------------------------- C24
\* The budget the command in the executor was entered with.
EnteredWith ==
    IF command = "destroy" THEN DESTROY_LOCK_TIMEOUT
    ELSE IF command = "apply" /\ branch = "incremental" THEN UPDATE_LOCK_TIMEOUT
    ELSE FRESH_LOCK_TIMEOUT

\* The turns of the loop so far and the budget left add up to the budget the
\* command was entered with: the command has been run again at most
\* budget / LOCK_SLEEP times.
WithinBudget ==
    pc = "exec" =>
        /\ lock_timeout >= 0
        /\ reports * LOCK_SLEEP + lock_timeout = EnteredWith
        /\ EnteredWith = 0 => reports = 0

\* One turn: the command is run again only with budget left, which the turn
\* counts down; otherwise the loop is left and the operation ends, or goes on
\* to its next command.
TurnEnds ==
    pc = "exec" =>
        \/ /\ pc' = "exec" /\ command' = command
           /\ lock_timeout > 0
           /\ lock_timeout' = lock_timeout - LOCK_SLEEP
           /\ reports' = reports + 1
        \/ pc' = "exec" /\ command = "init" /\ command' = "apply" /\ reports' = 0
        \/ pc' = "done" /\ outcome' \in {"ok", "critical"}

\* C24: the loop of every command ends: the command is run again only while
\* budget is left, each time with LOCK_SLEEP less of it, so it is run at most
\* budget / LOCK_SLEEP + 1 times (once when the budget is zero) even when the
\* backend reports lock contention every time, and every operation that has
\* entered the executor completes or ends in the fatal error.
C24_LoopEnds ==
    /\ []WithinBudget
    /\ [][TurnEnds]_vars
    /\ (pc = "exec") ~> (pc = "done")

\* C24, witness: destroy has been answered with lock contention on every one
\* of its DESTROY_LOCK_TIMEOUT / LOCK_SLEEP + 1 runs and has ended in the
\* fatal error.
C24_Witness ==
    /\ pc = "done" /\ op = "undeploy" /\ outcome = "critical"
    /\ result.lock /\ result.exit = 0
    /\ contention = (DESTROY_LOCK_TIMEOUT \div LOCK_SLEEP) + 1

\* C24, witness of the last turn: the budget of destroy is used up after
\* DESTROY_LOCK_TIMEOUT / LOCK_SLEEP reports.
C24_WitnessLastTurn ==
    /\ pc = "exec" /\ command = "destroy"
    /\ lock_timeout = 0
    /\ reports = DESTROY_LOCK_TIMEOUT \div LOCK_SLEEP

\* ------------------------------------------------------------------- C25
\* This step hands apply to the executor.
ApplyEntered == pc' = "exec" /\ command' = "apply" /\ (pc # "exec" \/ command # "apply")

\* The running operation is a fresh execute; it is an incremental one, on its
\* own or as the last step of update().
FreshExecute == op' = "execute" /\ branch' = "fresh"
IncrementalExecute == (op' = "execute" /\ branch' = "incremental") \/ op' = "update"

\* C25: a fresh execute runs init first and hands apply to the executor only
\* when init has run and its last answer has exit code zero and holds the
\* marker of init; an incremental execute hands apply to the executor
\* directly and never runs init.
C25_InitBeforeApply ==
    [][/\ (pc = "idle" /\ pc' = "exec" /\ FreshExecute) => command' = "init"
       /\ (ApplyEntered /\ FreshExecute) =>
             /\ pc = "exec" /\ command = "init"
             /\ "init" \in ran' /\ "apply" \notin ran'
             /\ result'.exit = 0 /\ result'.marker
       /\ (ApplyEntered /\ IncrementalExecute) => pc # "exec"
       /\ IncrementalExecute => "init" \notin ran'
       /\ ("apply" \in ran' /\ FreshExecute) => "init" \in ran']_vars

\* C25, witness: a fresh execute has ended "executed" after init and apply.
C25_Witness ==
    /\ pc = "done" /\ op = "execute" /\ branch = "fresh"
    /\ status = "executed"
    /\ ran = {"init", "apply"}

\* C25, witness of the incremental case: an incremental execute has ended
\* "executed" after apply alone.
C25_WitnessIncremental ==
    /\ pc = "done" /\ op = "execute" /\ branch = "incremental"
    /\ status = "executed"
    /\ ran = {"apply"}

\* ------------------------------------------------------------------- C26
\* The add_provider calls made so far, and those made with the name n.
ProviderCalls(cs) == {c \in cs : c[1] = "provider"}
ProviderCallsOf(cs, n) == {c \in ProviderCalls(cs) : c[2] = n}

\* C26: the document holds one configuration under each provider name that
\* add_provider was called with, and none under any other; it is the
\* configuration of the first call with that name, and no later call, with the
\* same or another configuration, changes or removes it.
C26_FirstProviderKept ==
    [][/\ \A n \in DOMAIN document.provider :
             /\ n \in DOMAIN document'.provider
             /\ document'.provider[n] = document.provider[n]
       /\ \A c \in ProviderCalls(calls' \ calls) :
             c[2] \notin DOMAIN document.provider => document'.provider[c[2]] = c[3]
       /\ DOMAIN document'.provider = {c[2] : c \in ProviderCalls(calls')}
       /\ \A n \in DOMAIN document'.provider :
             document'.provider[n] \in {c[3] : c \in ProviderCallsOf(calls', n)}]_vars

\* C26, witness: add_provider has been called with one name and two
\* configurations, and with another name; the first name holds the first
\* configuration.
C26_Witness ==
    /\ Cardinality(ProviderCallsOf(calls, "n1")) = 2
    /\ ProviderCallsOf(calls, "n2") # {}
    /\ document.provider["n1"] = [v |-> 2]

\* ------------------------------------------------------------------- C27
\* The mode claimed for a node's context.
ModeOf(n) ==
    IF n.ctx = None THEN "default"
    ELSE IF n.ctx[1].append
    THEN IF n.ctx[1].cfg = None THEN "fatal" ELSE "append"
    ELSE IF n.ctx[1].cfg = None THEN "default" ELSE "override"

Items(l) == {l[k] : k \in DOMAIN l}

\* d is the default template of n with the user's sections merged into the
\* matching ones: the sections of the default template and no other, a section
\* the user has not as it was, a section the user has too with the items of
\* both.
MergedFor(d, n) ==
    LET default == DefaultConfig(n.name)
        user == UserConfig(n.ctx[1].cfg[1])
    IN  /\ DOMAIN d = DOMAIN default
        /\ \A x \in DOMAIN default \ DOMAIN user : d[x] = default[x]
        /\ \A x \in DOMAIN default \cap DOMAIN user :
              /\ Len(d[x]) = Len(default[x]) + Len(user[x])
              /\ Items(d[x]) = Items(default[x]) \cup Items(user[x])

\* d is the document claimed for n.
DocumentFor(d, n) ==
    CASE ModeOf(n) = "default" -> d = DefaultConfig(n.name)
      [] ModeOf(n) = "override" -> d = UserConfig(n.ctx[1].cfg[1])
      [] ModeOf(n) = "append" -> MergedFor(d, n)
      [] OTHER -> FALSE

\* The nodes of the pass up to the first one with append and no config.
Resolvable == {i \in DOMAIN TplNodes : \A j \in 1..i : ModeOf(TplNodes[j]) # "fatal"}

\* The pass commits its documents: a build that no node fails.
Commits == ~validate /\ Resolvable = DOMAIN TplNodes

\* C27: a pass ends in the fatal error exactly when one of its nodes has
\* append without a config; every node before that one has its document at
\* its own staged path (.tmp), and the resolver has written no other path: the
\* committed path of a node holds a document only when the build has promoted
\* the staged one. The document is the default template alone for a node with
\* no context or with neither append nor config, the default template with the
\* user's sections merged into the matching sections for append with a config,
\* and the user's config alone for a config without append.
C27_ModeAndStagedPath ==
    (pc = "done" /\ op = "translate") =>
        /\ outcome = (IF Resolvable = DOMAIN TplNodes THEN "ok" ELSE "critical")
        /\ \A i \in DOMAIN TplNodes :
              LET n == TplNodes[i]
                  written == IF Commits THEN ci_file[n.name] ELSE ci_tmp[n.name]
              IN  /\ i \in Resolvable =>
                        written # None /\ DocumentFor(written[1], n)
                  /\ i \notin Resolvable => written = None
                  /\ ~Commits => ci_file[n.name] = None
                  /\ Commits => ci_tmp[n.name] = None
        /\ \A m \in Names \ {TplNodes[i].name : i \in DOMAIN TplNodes} :
              ci_file[m] = None /\ ci_tmp[m] = None

\* C27, witness: a validate pass over a node that appends a config and a node
\* that overrides with one has ended with both documents staged and none
\* committed.
C27_Witness ==
    /\ pc = "done" /\ op = "translate" /\ outcome = "ok" /\ validate
    /\ Len(TplNodes) = 2
    /\ ModeOf(TplNodes[1]) = "append" /\ ModeOf(TplNodes[2]) = "override"
    /\ ci_tmp[TplNodes[1].name] # None /\ ci_tmp[TplNodes[2].name] # None
    /\ ci_tmp[TplNodes[1].name][1].runcmd # DefaultConfig(TplNodes[1].name).runcmd
    /\ "worker" \notin DOMAIN ci_tmp[TplNodes[2].name][1]

\* ------------------------------------------------------------------- C28
\* update() has returned normally.
UpdateReturned == pc = "done" /\ op = "update" /\ outcome = "ok"

\* The nodes the pass of this adaptor writes a staged bootstrap document for.
PassDocuments == {TplNodes[i].name : i \in {j \in DOMAIN TplNodes : TplNodes[j].iface}}

====
